---- MODULE Spec2Model ----
(***************************************************************************)
(* PyFusion v2: the connection pool (database/connection_pool.py), the     *)
(* Database manager layered over it (database/manager.py), the Security    *)
(* helpers it calls (core/security.py) and the MigrationManager that runs  *)
(* on the Database (database/migrations.py).                               *)
(*                                                                         *)
(* A Python str is a sequence of one-character strings.  A SQL statement   *)
(* is a sequence of atoms: a blank, the placeholder "?", a keyword in      *)
(* upper or lower case, or a word (a table or column name, "x" for the    *)
(* one-column table of the generic statements) that shares no letter       *)
(* sequence with a keyword; the statement is the concatenation of its      *)
(* atoms.  A migration name is a str, compared as Python compares strs.    *)
(***************************************************************************)
EXTENDS Integers, Sequences, FiniteSets, TLC

\* ------------------------------------------------------------------ bounds
PoolSize == 2
MaxFaults == 1
MaxRows == 2
MaxText == 3
\* The wait of get_connection is observed every TickStep time units.
TickStep == 5
\* rollback(steps) is called with 1 <= steps <= MaxSteps.
MaxSteps == 2
\* CURRENT_TIMESTAMP advances at most MaxClock seconds during a run.
MaxClock == 1

\* ------------------------------------------------------- program constants
Timeout == 10

\* The callers: three threads, so that a pool of two can be exhausted.
Threads == {1, 2, 3}
MaxConns == PoolSize + MaxFaults
ConnIds == 1..MaxConns
NoConn == 0

\* ---------------------------------------------------------------- strings
SeqsUpTo(S, n) == UNION {[1..k -> S] : k \in 0..n}

Whitespace == {" "}

RECURSIVE lstrip(_)
lstrip(s) == IF s # <<>> /\ Head(s) \in Whitespace THEN lstrip(Tail(s)) ELSE s

RECURSIVE rstrip(_)
rstrip(s) ==
    IF s # <<>> /\ s[Len(s)] \in Whitespace THEN rstrip(SubSeq(s, 1, Len(s) - 1)) ELSE s

strip(s) == lstrip(rstrip(s))

escape_char(c) ==
    CASE c = "&" -> <<"&", "a", "m", "p", ";">>
      [] c = "<" -> <<"&", "l", "t", ";">>
      [] c = ">" -> <<"&", "g", "t", ";">>
      [] c = "\"" -> <<"&", "q", "u", "o", "t", ";">>
      [] c = "'" -> <<"&", "#", "x", "2", "7", ";">>
      [] OTHER -> <<c>>

RECURSIVE html_escape(_)
html_escape(s) == IF s = <<>> THEN <<>> ELSE escape_char(Head(s)) \o html_escape(Tail(s))

\* Security.sanitize_input on a str leaf; insert's record has one str field.
sanitize_input(data) == html_escape(strip(data))

\* ------------------------------------------------------------- statements
sql_keywords == <<"DROP", "DELETE", "INSERT", "UPDATE", "CREATE", "ALTER">>

upper(a) ==
    CASE a = "drop" -> "DROP"
      [] a = "delete" -> "DELETE"
      [] a = "insert" -> "INSERT"
      [] a = "update" -> "UPDATE"
      [] a = "create" -> "CREATE"
      [] a = "alter" -> "ALTER"
      [] a = "select" -> "SELECT"
      [] OTHER -> a

query_upper(query) == [i \in 1..Len(query) |-> upper(query[i])]

\* f' {keyword} ' in query_upper
spaced_keyword_in(keyword, q) ==
    \E i \in 1..(Len(q) - 2) : q[i] = " " /\ q[i + 1] = keyword /\ q[i + 2] = " "

has_placeholder(query) == \E i \in 1..Len(query) : query[i] = "?"

\* The scan without the upper-casing of the query.
prevent_sql_injection_raises_cased(query, params) ==
    /\ params # <<>>
    /\ \E k \in 1..Len(sql_keywords) :
          spaced_keyword_in(sql_keywords[k], query) /\ ~has_placeholder(query)

\* TRUE when Security.prevent_sql_injection(query, params) raises SecurityError.
prevent_sql_injection_raises(query, params) ==
    /\ params # <<>>
    /\ \E k \in 1..Len(sql_keywords) :
          spaced_keyword_in(sql_keywords[k], query_upper(query)) /\ ~has_placeholder(query)

\* ------------------------------------------------------------------ store
(* The table the statements act on: a sequence of row values indexed by    *)
(* row id (INTEGER PRIMARY KEY AUTOINCREMENT), one UNIQUE text column.     *)
Gone == <<"#gone">>

count_placeholders(query) == Cardinality({i \in 1..Len(query) : query[i] = "?"})

StatementWords == {"SELECT", "INSERT", "UPDATE", "DELETE"}
AllKeywords == {sql_keywords[k] : k \in 1..Len(sql_keywords)} \cup {"SELECT"}

\* What the store makes of a statement: its verb, or "bad" for one it cannot
\* prepare or bind (syntax error, wrong number of bindings).
statement_kind(query, params) ==
    LET q == query_upper(query) IN
    IF \/ q = <<>>
       \/ q[1] \notin StatementWords
       \/ \E i \in 2..Len(q) : q[i] \in AllKeywords
       \/ count_placeholders(query) # Len(params)
    THEN "bad"
    ELSE CASE q[1] = "INSERT" -> IF Len(params) = 1 THEN "insert" ELSE "bad"
           [] q[1] = "UPDATE" -> IF Len(params) = 2 THEN "update" ELSE "bad"
           [] q[1] = "DELETE" -> IF Len(params) <= 1 THEN "delete" ELSE "bad"
           [] q[1] = "SELECT" -> IF Len(params) <= 1 THEN "select" ELSE "bad"

is_write(kind) == kind \in {"insert", "update", "delete"}

live_ids(rows) == {i \in 1..Len(rows) : rows[i] # Gone}
matching_ids(rows, params) ==
    IF params = <<>> THEN live_ids(rows) ELSE {i \in live_ids(rows) : i = params[Len(params)]}

\* UNIQUE constraint of the column.
unique_ok(rows, v, except) == \A i \in live_ids(rows) \ except : rows[i] # v

RECURSIVE ids_in_order(_, _)
ids_in_order(n, S) ==
    IF n = 0 THEN <<>> ELSE ids_in_order(n - 1, S) \o (IF n \in S THEN <<n>> ELSE <<>>)

\* cursor.execute(query, params) on a connection that sees `rows`:
\* [ok, rows, rs (the rows a SELECT yields), lastrowid, rowcount].
store_execute(rows, query, params) ==
    LET kind == statement_kind(query, params)
        hit == matching_ids(rows, params)
        fail == [ok |-> FALSE, rows |-> rows, rs |-> <<>>, lastrowid |-> 0, rowcount |-> 0]
    IN CASE kind = "bad" -> fail
         [] kind = "insert" ->
              IF unique_ok(rows, params[1], {}) /\ Len(rows) < MaxRows
              THEN [ok |-> TRUE, rows |-> Append(rows, params[1]), rs |-> <<>>,
                    lastrowid |-> Len(rows) + 1, rowcount |-> 1]
              ELSE fail
         [] kind = "update" ->
              IF hit = {} \/ unique_ok(rows, params[1], hit)
              THEN [ok |-> TRUE,
                    rows |-> [i \in 1..Len(rows) |-> IF i \in hit THEN params[1] ELSE rows[i]],
                    rs |-> <<>>, lastrowid |-> 0, rowcount |-> Cardinality(hit)]
              ELSE fail
         [] kind = "delete" ->
              [ok |-> TRUE,
               rows |-> [i \in 1..Len(rows) |-> IF i \in hit THEN Gone ELSE rows[i]],
               rs |-> <<>>, lastrowid |-> 0, rowcount |-> Cardinality(hit)]
         [] kind = "select" ->
              LET ord == ids_in_order(Len(rows), hit) IN
              [ok |-> TRUE, rows |-> rows,
               rs |-> [k \in 1..Len(ord) |-> <<ord[k], rows[ord[k]]>>],
               lastrowid |-> 0, rowcount |-> 0]

\* ----------------------------------------------------------- named tables
(* The tables of the baseline schema that the statements name: users and   *)
(* migrations.  A statement on one of them carries the table as its third  *)
(* atom and, for an INSERT, the column names of the record after it.       *)
NamedTables == {"users", "migrations"}
target(query) == IF Len(query) >= 3 /\ query[3] \in NamedTables THEN query[3] ELSE "x"

RECURSIVE spaced(_, _)
spaced(names, k) ==
    IF k > Len(names) THEN <<>> ELSE <<" ", names[k]>> \o spaced(names, k + 1)

\* f"INSERT INTO {table} ({columns}) VALUES ({placeholders})"
insert_into(tbl, columns) ==
    <<"INSERT", " ", tbl>> \o spaced(columns, 1)
        \o spaced([k \in 1..Len(columns) |-> "?"], 1)

\* f"DELETE FROM {table} WHERE {where}"
delete_from(tbl, where) == <<"DELETE", " ", tbl, " ">> \o where

columns_of(query) ==
    LET IsName(a) == a \notin {" ", "?"} IN
    SelectSeq(SubSeq(query, 4, Len(query)), IsName)

\* The value bound to a column of an INSERT.
bound(query, params, col) ==
    LET cols == columns_of(query) IN params[CHOOSE k \in 1..Len(cols) : cols[k] = col]

\* users: username, email and password_hash are NOT NULL and have no default.
users_not_null == {"username", "email", "password_hash"}
\* The schema with the UNIQUE constraint on email alone.
users_unique_email_only == {"email"}
\* users: username and email are UNIQUE.
users_unique == {"username", "email"}

\* cursor.execute of an INSERT INTO users: [ok, rows, lastrowid].
users_insert(rows, query, params) ==
    LET cols == columns_of(query)
        given == {cols[k] : k \in 1..Len(cols)}
        row == [c \in given |-> bound(query, params, c)]
        clash == \E i \in 1..Len(rows) : \E c \in users_unique \cap given : rows[i][c] = row[c]
    IN IF users_not_null \subseteq given /\ ~clash
       THEN [ok |-> TRUE, rows |-> Append(rows, row), lastrowid |-> Len(rows) + 1]
       ELSE [ok |-> FALSE, rows |-> rows, lastrowid |-> 0]

\* cursor.execute of an INSERT INTO migrations at time `now`: version is
\* UNIQUE NOT NULL, applied_at defaults to CURRENT_TIMESTAMP.
migrations_insert(rows, query, params, now) ==
    LET cols == columns_of(query)
        given == {cols[k] : k \in 1..Len(cols)}
    IN IF "version" \in given
          /\ \A i \in 1..Len(rows) : rows[i].version # bound(query, params, "version")
       THEN [ok |-> TRUE,
             rows |-> Append(rows, [version |-> bound(query, params, "version"),
                                    applied_at |-> now])]
       ELSE [ok |-> FALSE, rows |-> rows]

\* DELETE FROM migrations WHERE version = ?
migrations_delete(rows, params) ==
    LET Stays(r) == r.version # params[1] IN
    [rows |-> SelectSeq(rows, Stays),
     rowcount |-> Len(rows) - Len(SelectSeq(rows, Stays))]

\* SELECT version FROM migrations ORDER BY applied_at: every order of the rows
\* that ascends in applied_at; rows of one timestamp come in any order.
ordered_by_applied_at(rows) ==
    LET n == Len(rows)
        perms == {p \in [1..n -> 1..n] : \A i, j \in 1..n : i # j => p[i] # p[j]}
    IN {[k \in 1..n |-> rows[p[k]].version] :
          p \in {q \in perms : \A i, j \in 1..n :
                                 i < j => rows[q[i]].applied_at <= rows[q[j]].applied_at}}

\* ------------------------------------------------------------------ state
VARIABLES
    pool,      \* ConnectionPool._pool: the queue of idle connections
    conn,      \* every sqlite3 connection created so far
    nconn,     \* how many connections were created
    table,     \* the committed rows of the store
    th,        \* each caller's position in the operation it is running, with what
               \* it passed, obtained (cur: its cursor's connection) and saw (snap: the
               \* table when the store refused its statement)
    ready,     \* Database._initialized
    faults,    \* commits, rollbacks and schema set-ups that failed so far
    shutdown,  \* close_all() has returned
    last,      \* history: the latest insert() that returned, until a row is changed
    users,     \* the committed rows of the users table
    migrations,\* the committed rows of the migrations table
    mm,        \* the MigrationManager: the definitions in its directory and the
               \* position of the call it is running
    clock,     \* CURRENT_TIMESTAMP, in ticks of its one-second resolution
    instances, \* Database._instances and the objects in it, with the position of
               \* each caller constructing or closing a Database
    tq,        \* the TaskQueue, its tasks, its worker threads and its caller
    cache,     \* the Cache, the time and the calls made on it
    mc         \* callers of migrate / rollback running at the same time

\* What the pool, the Database methods and a single MigrationManager leave alone.
others == <<instances, tq, cache, mc>>

vars == <<pool, conn, nconn, table, th, ready, faults, shutdown, last,
          users, migrations, mm, clock, instances, tq, cache, mc>>

NoTxn == 0
FreshConn == [st |-> "open", owner |-> NoTxn, work |-> <<>>]
NoneConn == [st |-> "none", owner |-> NoTxn, work |-> <<>>]

NoLast == [id |-> 0, data |-> <<>>, san |-> FALSE]

IdleTh ==
    [pc |-> "idle", m |-> "none", query |-> <<>>, params |-> <<>>, chk |-> FALSE,
     data |-> <<>>, san |-> FALSE, c |-> NoConn, waited |-> 0, exc |-> "none", err |-> "none",
     cur |-> NoConn, rows |-> <<>>, num |-> 0, rel |-> 0, snap |-> <<>>]

\* MigrationManager.status()'s return value.
NoStatus ==
    [applied |-> <<>>, pending |-> <<>>, total_applied |-> 0, total_pending |-> 0,
     current_version |-> <<>>]

\* migrate(target_version=None) / a current_version of None.
NoTarget == <<>>

\* History: the call of the MigrationManager that returned last, if it was a
\* migrate() without target or a rollback(1) and returned True: the versions
\* recorded before it and the versions whose up or down it invoked.
NoPrev == [op |-> "none", before |-> {}, ran |-> <<>>, files |-> {}]

\* A MigrationManager that runs no call: the definitions in its directory,
\* the migrations whose up has taken effect and not been undone (history),
\* and the call that returned last (history).
IdleManager(files, effect, prev) ==
    [files |-> files, effect |-> effect, prev |-> prev,
     pc |-> "idle", op |-> "none", target |-> NoTarget, steps |-> 0,
     batch |-> <<>>, i |-> 0, ran |-> <<>>, failed |-> 0, upok |-> FALSE,
     result |-> "none", out |-> NoStatus, before |-> <<>>, idle0 |-> {}]

\* ConnectionPool.__init__ / _initialize_pool; Database.__init__ up to
\* _setup_tables; the tables of the baseline schema are empty.
InitStore ==
    /\ pool = [i \in 1..PoolSize |-> i]
    /\ conn = [c \in ConnIds |-> IF c <= PoolSize THEN FreshConn ELSE NoneConn]
    /\ nconn = PoolSize
    /\ table = <<>>
    /\ th = [t \in Threads |-> IdleTh]
    /\ ready = FALSE
    /\ faults = 0
    /\ shutdown = FALSE
    /\ last = NoLast
    /\ users = <<>>
    /\ migrations = <<>>
    /\ clock = 0

\* ---------------------------------------------- state: Database objects
\* Database(db_path) and close(), seen from the callers that construct and
\* close managers; the pool of an object is the number of open connections
\* idle in the queue of its current ConnectionPool.
MaxCalls == 2
Paths == {"a", "b"}
NoObj == 0
ObjIds == 1..Cardinality(Paths)
Constructors == {1, 2}

NoInstance == [initialized |-> FALSE, pools |-> 0, idle |-> 0, closed |-> FALSE]
IdleCtor ==
    [pc |-> "idle", path |-> "", self |-> NoObj, got |-> NoObj, calls |-> 0,
     late |-> FALSE, res |-> "none"]

\* The class attributes `_instances = {}`, no object yet, no caller at work.
InitDatabase ==
    instances = [obj |-> [p \in Paths |-> NoObj], made |-> 0,
                 o |-> [k \in ObjIds |-> NoInstance],
                 ctor |-> [t \in Constructors |-> IdleCtor]]

\* ------------------------------------------------------ state: TaskQueue
\* TaskQueue(num_workers): the worker threads of one start().
NumWorkers == 2
\* The tasks added, the calls of start() that create threads.
MaxTasks == 3
MaxStarts == 2

TaskIds == 1..MaxTasks
NoTask == 0
Priorities == {0, 1}
WorkerIds == 1..(MaxStarts * NumWorkers)

\* A thread that does not exist yet; a task that was not created yet.
NoWorker == [pc |-> "none", task |-> NoTask]
NoTaskYet == [status |-> "none", priority |-> 0, runs |-> 0, raised |-> FALSE]
NoWait == [pc |-> "idle", id |-> NoTask, res |-> "none"]

\* TaskQueue.__init__: an empty PriorityQueue, no worker, no task, not running.
InitTaskQueue ==
    tq = [is_running |-> FALSE, workers |-> <<>>, threads |-> 0, starts |-> 0,
          w |-> [i \in WorkerIds |-> NoWorker],
          tasks |-> [id \in TaskIds |-> NoTaskYet], added |-> 0,
          heap |-> <<>>,
          caller |-> [pc |-> "idle", j |-> 0], wait |-> NoWait]

\* ---------------------------------------------------------- state: Cache
\* Cache._cleanup_interval, in seconds.
cleanup_interval == 300
\* time.time() advances in steps of TimeStep seconds, up to MaxTime.
TimeStep == 100
MaxTime == 800

Keys == {"k", "l"}
Ttls == {TimeStep, 2 * cleanup_interval}
NoItem == [value |-> "None", expires_at |-> 0]
NoCall == [op |-> "none", key |-> "", result |-> "None", stale |-> FALSE]

\* Cache.__init__ at time 0: an empty dictionary, _last_cleanup = time.time().
InitCache == cache = [items |-> [key \in Keys |-> NoItem], last_cleanup |-> 0,
                      now |-> 0, out |-> NoCall]

\* ------------------------------------------ state: concurrent migrations
\* Two callers of migrate / rollback on one database and one migrations
\* directory (two threads, or two runs of the command line).
MigrationCallers == {1, 2}
IdleCaller == [pc |-> "idle", op |-> "none", batch |-> <<>>, i |-> 0, result |-> "none"]

\* No definition in the directory, no call under way.
InitCallers == mc = [files |-> {}, run |-> [k \in MigrationCallers |-> IdleCaller]]

\* ... and a MigrationManager over an empty migrations directory; no manager
\* object, an idle task queue, an empty cache.
Init ==
    /\ InitStore /\ mm = IdleManager({}, {}, NoPrev)
    /\ InitDatabase /\ InitTaskQueue /\ InitCache /\ InitCallers

\* The connections idle in the queue.
Idle == {pool[i] : i \in 1..Len(pool)}

\* The rows connection c sees: its own uncommitted work, else the committed table.
view(c) == IF conn[c].owner # NoTxn THEN conn[c].work ELSE table
\* Another connection holds the store's write lock.
locked(c) == \E d \in ConnIds : d # c /\ conn[d].owner # NoTxn

\* insert / update: `data` and `sanitize` as the caller passed them.
Passed(data, sanitize) == [data |-> data, san |-> sanitize]
NoData == Passed(<<>>, FALSE)

Start(m, query, params, chk, arg) ==
    [IdleTh EXCEPT !.pc = "acquire", !.m = m, !.query = query, !.params = params,
                   !.chk = chk, !.data = arg.data, !.san = arg.san]

\* ------------------------------------------------------- Database methods
\* Database.execute up to get_connection: the optional security pre-check.
execute_entry(t, m, query, params, sanitize, arg) ==
    IF sanitize /\ prevent_sql_injection_raises(query, params)
    THEN th' = [th EXCEPT ![t] = [Start(m, query, params, sanitize, arg)
                                    EXCEPT !.pc = "done", !.err = "SecurityError"]]
    ELSE th' = [th EXCEPT ![t] = Start(m, query, params, sanitize, arg)]

CallExecute(t, query, params, sanitize) ==
    /\ ready /\ th[t].pc = "idle"
    /\ execute_entry(t, "execute", query, params, sanitize, NoData)
    /\ UNCHANGED <<pool, conn, nconn, table, ready, faults, shutdown, last, users, migrations, mm, clock, others>>

CallFetchAll(t, query, params) ==
    /\ ready /\ th[t].pc = "idle"
    /\ execute_entry(t, "fetch_all", query, params, TRUE, NoData)
    /\ UNCHANGED <<pool, conn, nconn, table, ready, faults, shutdown, last, users, migrations, mm, clock, others>>

CallFetchOne(t, query, params) ==
    /\ ready /\ th[t].pc = "idle"
    /\ execute_entry(t, "fetch_one", query, params, TRUE, NoData)
    /\ UNCHANGED <<pool, conn, nconn, table, ready, faults, shutdown, last, users, migrations, mm, clock, others>>

insert_query == <<"INSERT", " ", "x", " ", "?">>
update_query(where) == <<"UPDATE", " ", "x", " ", "?", " ">> \o where
delete_query(where) == <<"DELETE", " ", "x", " ">> \o where

\* The record passed through untouched.
sanitized_raw(data, sanitize) == data

\* insert / update: `if sanitize: data = Security.sanitize_input(data)`.
sanitized(data, sanitize) == IF sanitize THEN sanitize_input(data) ELSE data

CallInsert(t, data, sanitize) ==
    /\ ready /\ th[t].pc = "idle"
    /\ execute_entry(t, "insert", insert_query, <<sanitized(data, sanitize)>>, FALSE,
                     Passed(data, sanitize))
    /\ UNCHANGED <<pool, conn, nconn, table, ready, faults, shutdown, last, users, migrations, mm, clock, others>>

\* Database.insert(table, data) of a record with several fields: every
\* value is sanitized, the columns are the record's keys.
CallInsertRecord(t, tbl, columns, values, sanitize) ==
    /\ ready /\ th[t].pc = "idle"
    /\ execute_entry(t, "insert", insert_into(tbl, columns),
                     [k \in 1..Len(values) |-> sanitized(values[k], sanitize)], FALSE,
                     Passed(values, sanitize))
    /\ UNCHANGED <<pool, conn, nconn, table, ready, faults, shutdown, last, users, migrations, mm, clock, others>>

CallUpdate(t, data, where, where_params, sanitize) ==
    /\ ready /\ th[t].pc = "idle"
    /\ execute_entry(t, "update", update_query(where),
                     <<sanitized(data, sanitize)>> \o where_params, FALSE,
                     Passed(data, sanitize))
    /\ UNCHANGED <<pool, conn, nconn, table, ready, faults, shutdown, last, users, migrations, mm, clock, others>>

CallDelete(t, where, params) ==
    /\ ready /\ th[t].pc = "idle"
    /\ execute_entry(t, "delete", delete_query(where), params, TRUE, NoData)
    /\ UNCHANGED <<pool, conn, nconn, table, ready, faults, shutdown, last, users, migrations, mm, clock, others>>

\* Database.transaction(): the caller gets the PooledConnection scope itself.
CallTransaction(t) ==
    /\ ready /\ th[t].pc = "idle"
    /\ th' = [th EXCEPT ![t] = Start("transaction", <<>>, <<>>, FALSE, NoData)]
    /\ UNCHANGED <<pool, conn, nconn, table, ready, faults, shutdown, last, users, migrations, mm, clock, others>>

\* Database.__init__ -> _setup_tables, run by the constructing caller.
CallSetupTables(t) ==
    /\ ~ready /\ \A u \in Threads : th[u].pc = "idle"
    /\ th' = [th EXCEPT ![t] = Start("_setup_tables", <<>>, <<>>, FALSE, NoData)]
    /\ UNCHANGED <<pool, conn, nconn, table, ready, faults, shutdown, last, users, migrations, mm, clock, others>>

\* --------------------------------------------------------- ConnectionPool
\* Queue.get: the head of the queue leaves it.
queue_get_keep(q) == [c |-> Head(q), rest |-> q]
queue_get(q) == [c |-> Head(q), rest |-> Tail(q)]

\* Queue.get(timeout=10) gives up: the wait has lasted the whole timeout.
get_gives_up_nowait(waited) == waited >= 0
get_gives_up(waited) == waited >= Timeout

\* get_connection: a connection is idle, the caller takes it.
GetConnection(t) ==
    /\ th[t].pc = "acquire" /\ pool # <<>>
    /\ LET g == queue_get(pool) IN
         /\ pool' = g.rest
         /\ th' = [th EXCEPT ![t].c = g.c, ![t].waited = 0, ![t].rel = 0,
                             ![t].cur = IF th[t].m \in {"transaction", "_setup_tables"}
                                        THEN NoConn ELSE g.c,
                             ![t].pc = IF th[t].m = "transaction" THEN "scope" ELSE "body"]
    /\ UNCHANGED <<conn, nconn, table, ready, faults, shutdown, last, users, migrations, mm, clock, others>>

\* get_connection: the queue is empty, the wait goes on (never past the timeout).
Tick(t) ==
    /\ th[t].pc = "acquire" /\ pool = <<>> /\ ~get_gives_up(th[t].waited)
    /\ th' = [th EXCEPT ![t].waited = IF @ + TickStep > Timeout THEN Timeout ELSE @ + TickStep]
    /\ UNCHANGED <<pool, conn, nconn, table, ready, faults, shutdown, last, users, migrations, mm, clock, others>>

\* get_connection: Empty after the timeout -> DatabaseError("No database connections available").
GetConnectionTimeout(t) ==
    /\ th[t].pc = "acquire" /\ pool = <<>> /\ get_gives_up(th[t].waited)
    /\ th' = [th EXCEPT ![t].pc = "done", ![t].err = "DatabaseError:exhausted"]
    /\ UNCHANGED <<pool, conn, nconn, table, ready, faults, shutdown, last, users, migrations, mm, clock, others>>

\* conn.rollback() that succeeds: the open transaction and its work are gone.
rollback_noop(cr) == cr
rollback(cr) == [cr EXCEPT !.owner = NoTxn, !.work = <<>>]

\* PooledConnection.__exit__ calls return_connection whatever way the scope ends.
exit_releases_on_success(exc) == exc = "none"
exit_releases(exc) == TRUE

\* The error of the store swallowed instead of wrapped.
after_release_swallow(t, exc) ==
    CASE exc = "db" -> [pc |-> "done", err |-> "DatabaseError:create"]
      [] exc = "user" -> [pc |-> "done", err |-> "UserError"]
      [] OTHER -> [pc |-> "done", err |-> "none"]

\* Where the operation goes once its `with` block is left with exception exc:
\* execute wraps sqlite3.Error into DatabaseError, everything else propagates.
after_release(t, exc) ==
    CASE exc = "db" -> [pc |-> "done", err |-> "DatabaseError:create"]
      [] exc = "user" -> [pc |-> "done", err |-> "UserError"]
      [] exc = "sqlite" ->
           [pc |-> "done",
            err |-> IF th[t].m = "_setup_tables" THEN "sqlite3.Error" ELSE "DatabaseError:failed"]
      [] OTHER ->
           IF th[t].m \in {"fetch_all", "fetch_one", "insert", "update", "delete"}
           THEN [pc |-> "cursor", err |-> "none"]
           ELSE [pc |-> "done", err |-> "none"]

\* __exit__ -> return_connection: rollback, then put the connection back.
ReturnConnection(t) ==
    /\ th[t].pc = "exit"
    /\ LET c == th[t].c
           nxt == after_release(t, th[t].exc) IN
         IF exit_releases(th[t].exc)
         THEN /\ Len(pool) < PoolSize
              /\ conn' = [conn EXCEPT ![c] = rollback(@)]
              /\ pool' = Append(pool, c)
              /\ th' = [th EXCEPT ![t].c = NoConn, ![t].rel = @ + 1,
                                  ![t].pc = nxt.pc, ![t].err = nxt.err]
         ELSE /\ th' = [th EXCEPT ![t].pc = nxt.pc, ![t].err = nxt.err]
              /\ UNCHANGED <<pool, conn>>
    /\ UNCHANGED <<nconn, table, ready, faults, shutdown, last, users, migrations, mm, clock, others>>

\* return_connection: conn.rollback() raises; the connection is dropped.
ReturnConnectionBroken(t) ==
    /\ th[t].pc = "exit" /\ exit_releases(th[t].exc)
    /\ faults < MaxFaults
    /\ LET c == th[t].c IN
         /\ conn' = [conn EXCEPT ![c] = [st |-> "discarded", owner |-> NoTxn, work |-> <<>>]]
         /\ th' = [th EXCEPT ![t].c = NoConn, ![t].rel = @ + 1, ![t].pc = "replace"]
    /\ faults' = faults + 1
    /\ UNCHANGED <<pool, nconn, table, ready, shutdown, last, users, migrations, mm, clock, others>>

\* return_connection, except branch: _create_connection() and put.
ReplaceConnection(t) ==
    /\ th[t].pc = "replace"
    /\ nconn < MaxConns /\ Len(pool) < PoolSize
    /\ LET nxt == after_release(t, th[t].exc) IN
         /\ nconn' = nconn + 1
         /\ conn' = [conn EXCEPT ![nconn + 1] = FreshConn]
         /\ pool' = Append(pool, nconn + 1)
         /\ th' = [th EXCEPT ![t].pc = nxt.pc, ![t].err = nxt.err]
    /\ UNCHANGED <<table, ready, faults, shutdown, last, users, migrations, mm, clock, others>>

\* return_connection, except branch: _create_connection() raises DatabaseError.
ReplaceConnectionFails(t) ==
    /\ th[t].pc = "replace"
    /\ LET nxt == after_release(t, "db") IN
         th' = [th EXCEPT ![t].pc = nxt.pc, ![t].err = nxt.err]
    /\ UNCHANGED <<pool, conn, nconn, table, ready, faults, shutdown, last, users, migrations, mm, clock, others>>

\* Database.close() -> close_all(): one turn of the drain loop.
CallClose(t) ==
    /\ ready /\ th[t].pc = "idle"
    /\ th' = [th EXCEPT ![t] = [IdleTh EXCEPT !.pc = "closing", !.m = "close"]]
    /\ UNCHANGED <<pool, conn, nconn, table, ready, faults, shutdown, last, users, migrations, mm, clock, others>>

CloseStep(t) ==
    /\ th[t].pc = "closing" /\ pool # <<>>
    /\ conn' = [conn EXCEPT ![Head(pool)].st = "closed"]
    /\ pool' = Tail(pool)
    /\ UNCHANGED <<nconn, table, th, ready, faults, shutdown, last, users, migrations, mm, clock, others>>

CloseDone(t) ==
    /\ th[t].pc = "closing" /\ pool = <<>>
    /\ th' = [th EXCEPT ![t].pc = "done"]
    /\ shutdown' = TRUE
    /\ UNCHANGED <<pool, conn, nconn, table, ready, faults, last, users, migrations, mm, clock, others>>

\* ------------------------------------------------ inside the `with` block
\* Database.execute, the body: cursor.execute(query, params); conn.commit().
RunStatement(t) ==
    /\ th[t].pc = "body" /\ th[t].m # "_setup_tables" /\ target(th[t].query) = "x"
    /\ LET c == th[t].c
           kind == statement_kind(th[t].query, th[t].params)
           r == store_execute(view(c), th[t].query, th[t].params)
           refused == ~r.ok \/ (is_write(kind) /\ locked(c)) IN
         /\ IF refused
            THEN /\ conn' = IF is_write(kind) /\ ~locked(c)
                            THEN [conn EXCEPT ![c].owner = t, ![c].work = view(c)]
                            ELSE conn
                 /\ th' = [th EXCEPT ![t].pc = "exit", ![t].exc = "sqlite", ![t].snap = table]
                 /\ UNCHANGED <<table, faults, last>>
            ELSE /\ conn' = [conn EXCEPT ![c].owner = NoTxn, ![c].work = <<>>]
                 /\ table' = IF is_write(kind) \/ conn[c].owner # NoTxn THEN r.rows ELSE table
                 /\ th' = [th EXCEPT ![t].pc = "exit", ![t].rows = r.rs,
                                     ![t].num = IF kind = "insert" THEN r.lastrowid
                                                ELSE r.rowcount]
                 /\ last' = IF kind \in {"update", "delete"} THEN NoLast ELSE last
                 /\ UNCHANGED faults
    /\ UNCHANGED <<pool, nconn, ready, shutdown, users, migrations, mm, clock, others>>

\* Database.execute, the body: the statement runs but conn.commit() raises.
RunStatementCommitFails(t) ==
    /\ th[t].pc = "body" /\ th[t].m # "_setup_tables" /\ target(th[t].query) = "x"
    /\ faults < MaxFaults
    /\ LET c == th[t].c
           kind == statement_kind(th[t].query, th[t].params)
           r == store_execute(view(c), th[t].query, th[t].params) IN
         /\ r.ok /\ is_write(kind) /\ ~locked(c)
         /\ conn' = [conn EXCEPT ![c].owner = t, ![c].work = r.rows]
         /\ th' = [th EXCEPT ![t].pc = "exit", ![t].exc = "sqlite", ![t].snap = table]
    /\ faults' = faults + 1
    /\ UNCHANGED <<pool, nconn, table, ready, shutdown, last, users, migrations, mm, clock, others>>

\* What cursor.execute makes of a statement on a named table, seen from
\* connection c: the set of its possible results [ok, users, migrations, rs,
\* num]; a SELECT ... ORDER BY applied_at has one result per admissible order.
named_execute(query, params) ==
    LET verb == upper(query[1])
        none == [ok |-> FALSE, users |-> users, migrations |-> migrations,
                 rs |-> <<>>, num |-> 0]
    IN CASE target(query) = "users" /\ verb = "INSERT" ->
              LET r == users_insert(users, query, params) IN
              {[none EXCEPT !.ok = r.ok, !.users = r.rows, !.num = r.lastrowid]}
         [] target(query) = "migrations" /\ verb = "INSERT" ->
              LET r == migrations_insert(migrations, query, params, clock) IN
              {[none EXCEPT !.ok = r.ok, !.migrations = r.rows, !.num = Len(r.rows)]}
         [] target(query) = "migrations" /\ verb = "DELETE" ->
              LET r == migrations_delete(migrations, params) IN
              {[none EXCEPT !.ok = TRUE, !.migrations = r.rows, !.num = r.rowcount]}
         [] target(query) = "migrations" /\ verb = "SELECT" ->
              {[none EXCEPT !.ok = TRUE, !.rs = o] : o \in ordered_by_applied_at(migrations)}
         [] OTHER -> {none}

named_write(query) == upper(query[1]) \in {"INSERT", "DELETE"}

\* Database.execute, the body, for a statement on users or migrations:
\* cursor.execute(query, params); conn.commit().
RunNamed(t) ==
    /\ th[t].pc = "body" /\ th[t].m # "_setup_tables" /\ target(th[t].query) # "x"
    /\ LET c == th[t].c
           w == named_write(th[t].query) IN
         \E r \in named_execute(th[t].query, th[t].params) :
            IF ~r.ok \/ (w /\ locked(c))
            THEN /\ conn' = IF w /\ ~locked(c)
                            THEN [conn EXCEPT ![c].owner = t, ![c].work = view(c)]
                            ELSE conn
                 /\ th' = [th EXCEPT ![t].pc = "exit", ![t].exc = "sqlite", ![t].snap = table]
                 /\ UNCHANGED <<users, migrations>>
            ELSE /\ conn' = conn
                 /\ users' = r.users
                 /\ migrations' = r.migrations
                 /\ th' = [th EXCEPT ![t].pc = "exit", ![t].rows = r.rs, ![t].num = r.num]
    /\ UNCHANGED <<pool, nconn, table, ready, faults, shutdown, last, mm, clock, others>>

\* ... the statement runs but conn.commit() raises: its transaction stays
\* open on the connection until the release rolls it back.
RunNamedCommitFails(t) ==
    /\ th[t].pc = "body" /\ th[t].m # "_setup_tables" /\ target(th[t].query) # "x"
    /\ faults < MaxFaults
    /\ LET c == th[t].c IN
         /\ named_write(th[t].query) /\ ~locked(c)
         /\ \E r \in named_execute(th[t].query, th[t].params) : r.ok
         /\ conn' = [conn EXCEPT ![c].owner = t, ![c].work = view(c)]
         /\ th' = [th EXCEPT ![t].pc = "exit", ![t].exc = "sqlite", ![t].snap = table]
    /\ faults' = faults + 1
    /\ UNCHANGED <<pool, nconn, table, ready, shutdown, last, users, migrations, mm, clock, others>>

\* Database._setup_tables, the body: CREATE TABLE IF NOT EXISTS ...; commit.
SetupTables(t) ==
    /\ th[t].pc = "body" /\ th[t].m = "_setup_tables"
    /\ th' = [th EXCEPT ![t].pc = "exit"]
    /\ UNCHANGED <<pool, conn, nconn, table, ready, faults, shutdown, last, users, migrations, mm, clock, others>>

SetupTablesFails(t) ==
    /\ th[t].pc = "body" /\ th[t].m = "_setup_tables"
    /\ faults < MaxFaults
    /\ th' = [th EXCEPT ![t].pc = "exit", ![t].exc = "sqlite"]
    /\ faults' = faults + 1
    /\ UNCHANGED <<pool, conn, nconn, table, ready, shutdown, last, users, migrations, mm, clock, others>>

\* A transaction() scope: the caller writes a row on the scoped connection.
ScopeWrite(t, v) ==
    /\ th[t].pc = "scope" /\ conn[th[t].c].owner = NoTxn
    /\ LET c == th[t].c
           r == store_execute(view(c), insert_query, <<v>>) IN
         IF r.ok /\ ~locked(c)
         THEN /\ conn' = [conn EXCEPT ![c].owner = t, ![c].work = r.rows]
              /\ th' = th
         ELSE /\ conn' = conn
              /\ th' = [th EXCEPT ![t].pc = "exit", ![t].exc = "user"]
    /\ UNCHANGED <<pool, nconn, table, ready, faults, shutdown, last, users, migrations, mm, clock, others>>

\* A transaction() scope: the caller commits.
ScopeCommit(t) ==
    /\ th[t].pc = "scope" /\ conn[th[t].c].owner # NoTxn
    /\ table' = conn[th[t].c].work
    /\ conn' = [conn EXCEPT ![th[t].c].owner = NoTxn, ![th[t].c].work = <<>>]
    /\ UNCHANGED <<pool, nconn, th, ready, faults, shutdown, last, users, migrations, mm, clock, others>>

\* A transaction() scope ends, normally or by an exception of the caller.
ScopeExit(t, raised) ==
    /\ th[t].pc = "scope"
    /\ th' = [th EXCEPT ![t].pc = "exit", ![t].exc = IF raised THEN "user" ELSE "none",
                        ![t].num = IF conn[th[t].c].owner # NoTxn THEN 1 ELSE 0]
    /\ UNCHANGED <<pool, conn, nconn, table, ready, faults, shutdown, last, users, migrations, mm, clock, others>>

\* fetch_all / fetch_one / insert / update / delete read the cursor that
\* execute returned: description, fetchall(), fetchone(), lastrowid, rowcount.
CursorUse(t) ==
    /\ th[t].pc = "cursor"
    /\ th' = [th EXCEPT ![t].pc = "done",
                        ![t].rows = IF th[t].m = "fetch_one" /\ Len(@) > 1
                                    THEN <<@[1]>> ELSE @]
    /\ last' = IF th[t].m = "insert"
               THEN [id |-> th[t].num, data |-> th[t].data, san |-> th[t].san]
               ELSE last
    /\ UNCHANGED <<pool, conn, nconn, table, ready, faults, shutdown, users, migrations, mm, clock, others>>

\* The operation returns to (or raises into) its caller.
Return(t) ==
    /\ th[t].pc = "done"
    /\ th' = [th EXCEPT ![t] = IdleTh]
    /\ ready' = (ready \/ (th[t].m = "_setup_tables" /\ th[t].err = "none"))
    /\ UNCHANGED <<pool, conn, nconn, table, faults, shutdown, last, users, migrations, mm, clock, others>>

\* ------------------------------------------------------------------ inputs
where_id == <<"x", " ", "?">>
QSelect == <<"SELECT", " ", "x", " ", "?">>
QSelectAll == <<"SELECT", " ", "x">>
QDeleteAll == <<"DELETE", " ", "x">>
QSuspicious == <<"select", " ", "drop", " ", "x">>

\* The statements of the single-caller runs: every text of at most MaxText atoms.
Atoms == {" ", "?", "x", "DROP", "delete"}
Texts == SeqsUpTo(Atoms, MaxText)
\* The field values of the single-caller runs.
Values == {<<"a">>, <<" ", "<">>}

PoolStep(t) ==
    \/ GetConnection(t) \/ Tick(t) \/ GetConnectionTimeout(t)
    \/ ReturnConnection(t) \/ ReturnConnectionBroken(t)
    \/ ReplaceConnection(t) \/ ReplaceConnectionFails(t)
    \/ CloseStep(t) \/ CloseDone(t)

SetupStep(t) == CallSetupTables(t) \/ SetupTables(t) \/ SetupTablesFails(t)

ScopeSteps(t, exits) ==
    \/ CallTransaction(t)
    \/ ScopeWrite(t, <<"a">>)
    \/ ScopeCommit(t)
    \/ \E raised \in exits : ScopeExit(t, raised)

ScopeStep(t) == ScopeSteps(t, BOOLEAN)

StatementStep(t) == RunStatement(t) \/ RunStatementCommitFails(t) \/ CursorUse(t)

\* Three callers that open transaction scopes and close the pool.
Next ==
    \E t \in Threads :
        \/ SetupStep(t) \/ ScopeSteps(t, {FALSE}) \/ CallClose(t) \/ PoolStep(t) \/ Return(t)

Spec == Init /\ [][Next]_vars

\* Two callers that insert, read back and close the pool.
DbCallers == {1, 2}
NextDb ==
    \E t \in DbCallers :
        \/ SetupStep(t) \/ CallClose(t) \/ PoolStep(t) \/ Return(t)
        \/ StatementStep(t)
        \/ CallFetchOne(t, QSelect, <<1>>)
        \/ CallInsert(t, <<"a">>, TRUE)

SpecDb == Init /\ [][NextDb]_vars

\* One caller that uses every method of the Database manager.
SoloCallers == {1}
NextSolo ==
    \E t \in SoloCallers :
        \/ SetupStep(t) \/ ScopeStep(t) \/ CallClose(t) \/ PoolStep(t) \/ Return(t)
        \/ StatementStep(t)
        \/ CallExecute(t, QDeleteAll, <<>>, TRUE)
        \/ CallExecute(t, QSuspicious, <<1>>, TRUE)
        \/ CallFetchAll(t, QSelectAll, <<>>)
        \/ \E id \in 1..MaxRows : CallFetchOne(t, QSelect, <<id>>)
        \/ \E v \in Values, sanitize \in BOOLEAN : CallInsert(t, v, sanitize)
        \/ \E v \in Values : CallUpdate(t, v, where_id, <<1>>, TRUE)
        \/ CallDelete(t, where_id, <<1>>)

SpecSolo == Init /\ [][NextSolo]_vars

\* One caller that passes every statement text to execute.
NextSec ==
    \E t \in SoloCallers :
        \/ SetupStep(t) \/ CallClose(t) \/ PoolStep(t) \/ Return(t)
        \/ RunStatement(t) \/ RunStatementCommitFails(t)
        \/ \E q \in Texts, p \in {<<>>, <<1>>}, sanitize \in BOOLEAN :
              CallExecute(t, q, p, sanitize)

SpecSec == Init /\ [][NextSec]_vars

\* The records of the callers that fill the users table: the record of the
\* demo (username and email only) and complete records with two emails and
\* two usernames that are one once sanitized.
DemoColumns == <<"username", "email">>
DemoRecord == <<<<"a">>, <<"e">>>>
FullColumns == <<"username", "email", "password_hash">>
FullRecords == {<<<<"a">>, <<"e">>, <<"h">>>>, <<<<" ", "a">>, <<"f">>, <<"h">>>>}

NamedStep(t) == RunNamed(t) \/ RunNamedCommitFails(t) \/ CursorUse(t)

\* Two callers that insert users.
NextUsers ==
    \E t \in DbCallers :
        \/ SetupStep(t) \/ CallClose(t) \/ PoolStep(t) \/ Return(t)
        \/ NamedStep(t)
        \/ CallInsertRecord(t, "users", DemoColumns, DemoRecord, TRUE)
        \/ \E record \in FullRecords : CallInsertRecord(t, "users", FullColumns, record, TRUE)

SpecUsers == Init /\ [][NextUsers]_vars

\* ------------------------------------------------------- MigrationManager
\* Code points of the characters that occur in migration names.
ord(c) ==
    CASE c = " " -> 32 [] c = "#" -> 35 [] c = "&" -> 38 [] c = "0" -> 48
      [] c = "1" -> 49 [] c = "2" -> 50 [] c = ";" -> 59 [] c = "a" -> 97
      [] c = "m" -> 109 [] c = "p" -> 112 [] OTHER -> 120

\* a < b and a <= b on Python strings.
RECURSIVE str_lt(_, _)
str_lt(a, b) ==
    IF b = <<>> THEN FALSE
    ELSE IF a = <<>> THEN TRUE
    ELSE IF Head(a) = Head(b) THEN str_lt(Tail(a), Tail(b))
    ELSE ord(Head(a)) < ord(Head(b))

str_le(a, b) == a = b \/ str_lt(a, b)

\* sorted(names)
RECURSIVE sorted(_)
sorted(S) ==
    IF S = {} THEN <<>>
    ELSE LET least == CHOOSE x \in S : \A y \in S : str_le(x, y)
         IN <<least>> \o sorted(S \ {least})

\* reversed(seq)
reversed(q) == [k \in 1..Len(q) |-> q[Len(q) + 1 - k]]

\* seq[-steps:] for steps >= 0 (seq[-0:] is the whole sequence)
last_of(q, steps) ==
    IF steps = 0 \/ steps >= Len(q) THEN q ELSE SubSeq(q, Len(q) - steps + 1, Len(q))

Range(q) == {q[k] : k \in 1..Len(q)}

\* The versions recorded in the migrations table, in the order of their rows.
recorded(rows) == [k \in 1..Len(rows) |-> rows[k].version]

\* The caller that runs the MigrationManager.
Runner == 1

QApplied == <<"SELECT", " ", "migrations">>
where_version == <<"version", " ", "?">>
record_columns == <<"version", "description">>
Description == <<"d">>

\* A query for the applied versions that deletes a record.
fetch_applied_deleting ==
    execute_entry(Runner, "fetch_all", delete_from("migrations", where_version),
                  <<<<"2">>>>, TRUE, NoData)

\* get_applied_migrations: db.fetch_all("SELECT version FROM migrations
\* ORDER BY applied_at").
fetch_applied == execute_entry(Runner, "fetch_all", QApplied, <<>>, TRUE, NoData)

\* The pending list with the target ignored.
up_to_any(pending, target_version) == pending

\* [m for m in pending if m <= target_version]
up_to(pending, target_version) ==
    LET Within(m) == str_le(m, target_version) IN SelectSeq(pending, Within)

\* Every definition counted as pending, applied or not.
pending_of_all(files, applied) == sorted(files)

\* get_pending_migrations, given the applied versions it fetched.
pending_of(files, applied) == sorted(files \ Range(applied))

\* The manager starts a call: what it remembers of the state it found.
begin(op) ==
    [IdleManager(mm.files, mm.effect, mm.prev) EXCEPT
        !.op = op, !.before = migrations, !.idle0 = Idle]

finish(result) == [mm EXCEPT !.pc = "done", !.result = result]

\* The batch goes on with the next migration after the k-th failed.
halt_and_go_on(k) == [mm EXCEPT !.pc = "loop", !.i = k + 1, !.failed = k]

\* migrate / rollback: `if not self._apply_migration(...): return False`, the
\* k-th migration of the batch being the one that failed.
halt(k) == [finish("False") EXCEPT !.failed = k]

\* The record of a `with` block that raised nothing.
Returned(t) == th[t].pc = "done" /\ th[t].err = "none"
Raised(t) == th[t].pc = "done" /\ th[t].err # "none"

\* A migration definition is put into the migrations directory.
AddMigration(v) ==
    /\ mm.pc = "idle" /\ v \notin mm.files
    /\ mm' = [mm EXCEPT !.files = @ \cup {v}]
    /\ UNCHANGED <<pool, conn, nconn, table, th, ready, faults, shutdown, last, users, migrations, clock, others>>

\* A second passes; the time is looked at where CURRENT_TIMESTAMP is read, when
\* the record of a migration is about to be inserted.
ClockTick ==
    /\ clock < MaxClock
    /\ mm.pc = "record" /\ th[Runner].pc = "body"
    /\ clock' = clock + 1
    /\ UNCHANGED <<pool, conn, nconn, table, th, ready, faults, shutdown, last, users, migrations, mm, others>>

\* migrate(target_version): get_pending_migrations() is called.
CallMigrate(target_version) ==
    /\ ready /\ mm.pc = "idle" /\ th[Runner].pc = "idle"
    /\ mm' = [begin("migrate") EXCEPT !.pc = "pending", !.target = target_version]
    /\ fetch_applied
    /\ UNCHANGED <<pool, conn, nconn, table, ready, faults, shutdown, last, users, migrations, clock, others>>

\* migrate: the pending list is there (or fetch_all raised into migrate).
MigratePending ==
    /\ mm.op = "migrate" /\ mm.pc = "pending" /\ th[Runner].pc = "done"
    /\ LET pending == pending_of(mm.files, th[Runner].rows) IN
         mm' = IF Raised(Runner) THEN finish("raise")
               ELSE IF pending = <<>> THEN finish("True")
               ELSE [mm EXCEPT !.pc = "loop", !.i = 1,
                               !.batch = IF mm.target # NoTarget
                                         THEN up_to(pending, mm.target) ELSE pending]
    /\ th' = [th EXCEPT ![Runner] = IdleTh]
    /\ UNCHANGED <<pool, conn, nconn, table, ready, faults, shutdown, last, users, migrations, clock, others>>

\* What loading a definition and calling its up or down comes to: it returns
\* True, returns False, raises, or the file defines no Migration class.
Outcomes == {"ok", "false", "raises", "no_class"}
invoked(o) == o # "no_class"

record_version(version) ==
    execute_entry(Runner, "insert", insert_into("migrations", record_columns),
                  <<sanitized(version, TRUE), sanitized(Description, TRUE)>>, FALSE,
                  Passed(<<version, Description>>, TRUE))

\* _apply_migration(migration_name) up to the insert of the record.
ApplyMigration(o) ==
    /\ mm.op = "migrate" /\ mm.pc = "loop" /\ mm.i <= Len(mm.batch)
    /\ LET v == mm.batch[mm.i]
           ran == IF invoked(o) THEN Append(mm.ran, v) ELSE mm.ran IN
         IF o = "ok"
         THEN /\ mm' = [mm EXCEPT !.pc = "record", !.ran = ran, !.upok = TRUE,
                                  !.effect = @ \cup {v}]
              /\ record_version(v)
         ELSE /\ mm' = [halt(mm.i) EXCEPT !.ran = ran, !.upok = FALSE]
              /\ th' = th
    /\ UNCHANGED <<pool, conn, nconn, table, ready, faults, shutdown, last, users, migrations, clock, others>>

\* _apply_migration: db.insert returned (True) or raised (except: False).
MigrationRecorded ==
    /\ mm.op = "migrate" /\ mm.pc = "record" /\ th[Runner].pc = "done"
    /\ mm' = IF Returned(Runner) THEN [mm EXCEPT !.pc = "loop", !.i = @ + 1]
             ELSE halt(mm.i)
    /\ th' = [th EXCEPT ![Runner] = IdleTh]
    /\ UNCHANGED <<pool, conn, nconn, table, ready, faults, shutdown, last, users, migrations, clock, others>>

\* migrate: the loop is through.
MigrateDone ==
    /\ mm.op = "migrate" /\ mm.pc = "loop" /\ mm.i > Len(mm.batch)
    /\ mm' = finish("True")
    /\ UNCHANGED <<pool, conn, nconn, table, th, ready, faults, shutdown, last, users, migrations, clock, others>>

\* rollback(steps): get_applied_migrations() is called.
CallRollback(steps) ==
    /\ ready /\ mm.pc = "idle" /\ th[Runner].pc = "idle"
    /\ mm' = [begin("rollback") EXCEPT !.pc = "applied", !.steps = steps]
    /\ fetch_applied
    /\ UNCHANGED <<pool, conn, nconn, table, ready, faults, shutdown, last, users, migrations, clock, others>>

\* rollback: the applied list is there (or fetch_all raised into rollback).
RollbackApplied ==
    /\ mm.op = "rollback" /\ mm.pc = "applied" /\ th[Runner].pc = "done"
    /\ LET applied == th[Runner].rows IN
         mm' = IF Raised(Runner) THEN finish("raise")
               ELSE IF applied = <<>> THEN finish("True")
               ELSE [mm EXCEPT !.pc = "loop", !.i = 1,
                               !.batch = reversed(last_of(applied, mm.steps))]
    /\ th' = [th EXCEPT ![Runner] = IdleTh]
    /\ UNCHANGED <<pool, conn, nconn, table, ready, faults, shutdown, last, users, migrations, clock, others>>

unrecord_version(version) ==
    execute_entry(Runner, "delete", delete_from("migrations", where_version),
                  <<version>>, TRUE, NoData)

\* _revert_migration(migration_name) up to the delete of the record; a
\* recorded version without a file cannot be loaded.
RevertMigration(o) ==
    /\ mm.op = "rollback" /\ mm.pc = "loop" /\ mm.i <= Len(mm.batch)
    /\ LET v == mm.batch[mm.i]
           ran == IF invoked(o) THEN Append(mm.ran, v) ELSE mm.ran IN
         /\ v \notin mm.files => o = "no_class"
         /\ IF o = "ok"
            THEN /\ mm' = [mm EXCEPT !.pc = "unrecord", !.ran = ran, !.upok = TRUE,
                                     !.effect = @ \ {v}]
                 /\ unrecord_version(v)
            ELSE /\ mm' = [halt(mm.i) EXCEPT !.ran = ran, !.upok = FALSE]
                 /\ th' = th
    /\ UNCHANGED <<pool, conn, nconn, table, ready, faults, shutdown, last, users, migrations, clock, others>>

\* _revert_migration: db.delete returned (True) or raised (except: False).
MigrationUnrecorded ==
    /\ mm.op = "rollback" /\ mm.pc = "unrecord" /\ th[Runner].pc = "done"
    /\ mm' = IF Returned(Runner) THEN [mm EXCEPT !.pc = "loop", !.i = @ + 1]
             ELSE halt(mm.i)
    /\ th' = [th EXCEPT ![Runner] = IdleTh]
    /\ UNCHANGED <<pool, conn, nconn, table, ready, faults, shutdown, last, users, migrations, clock, others>>

\* rollback: the loop is through.
RollbackDone ==
    /\ mm.op = "rollback" /\ mm.pc = "loop" /\ mm.i > Len(mm.batch)
    /\ mm' = finish("True")
    /\ UNCHANGED <<pool, conn, nconn, table, th, ready, faults, shutdown, last, users, migrations, clock, others>>

\* status(): get_applied_migrations() is called.
CallStatus ==
    /\ ready /\ mm.pc = "idle" /\ th[Runner].pc = "idle"
    /\ mm' = [begin("status") EXCEPT !.pc = "applied"]
    /\ fetch_applied
    /\ UNCHANGED <<pool, conn, nconn, table, ready, faults, shutdown, last, users, migrations, clock, others>>

\* status: `applied` is there; get_pending_migrations() fetches it again.
StatusApplied ==
    /\ mm.op = "status" /\ mm.pc = "applied" /\ th[Runner].pc = "done"
    /\ IF Raised(Runner)
       THEN /\ mm' = finish("raise")
            /\ th' = [th EXCEPT ![Runner] = IdleTh]
       ELSE /\ mm' = [mm EXCEPT !.pc = "pending", !.out.applied = th[Runner].rows]
            /\ fetch_applied
    /\ UNCHANGED <<pool, conn, nconn, table, ready, faults, shutdown, last, users, migrations, clock, others>>

status_of(applied, pending) ==
    [applied |-> applied, pending |-> pending,
     total_applied |-> Len(applied), total_pending |-> Len(pending),
     current_version |-> IF applied # <<>> THEN applied[Len(applied)] ELSE NoTarget]

\* status: `pending` is there, the dict is returned.
StatusPending ==
    /\ mm.op = "status" /\ mm.pc = "pending" /\ th[Runner].pc = "done"
    /\ mm' = IF Raised(Runner) THEN finish("raise")
             ELSE [finish("True") EXCEPT
                      !.out = status_of(mm.out.applied,
                                        pending_of(mm.files, th[Runner].rows))]
    /\ th' = [th EXCEPT ![Runner] = IdleTh]
    /\ UNCHANGED <<pool, conn, nconn, table, ready, faults, shutdown, last, users, migrations, clock, others>>

remembered ==
    /\ mm.result = "True"
    /\ \/ mm.op = "migrate" /\ mm.target = NoTarget
       \/ mm.op = "rollback" /\ mm.steps = 1

\* The manager's call returns to (or raises into) its caller.
ManagerReturn ==
    /\ mm.pc = "done"
    /\ mm' = IdleManager(mm.files, mm.effect,
                         IF remembered
                         THEN [op |-> mm.op, before |-> Range(recorded(mm.before)),
                               ran |-> mm.ran, files |-> mm.files]
                         ELSE NoPrev)
    /\ UNCHANGED <<pool, conn, nconn, table, th, ready, faults, shutdown, last, users, migrations, clock, others>>

\* The names of migration definitions: plain ones ("10" sorts before "2"), and
\* names of which html.escape changes one.
MigrationNames == {<<"1", "0">>, <<"2">>}
EscapedNames == {<<"1", "&">>, <<"2">>}

MigrateStep ==
    \/ \E target_version \in MigrationNames \cup {NoTarget} : CallMigrate(target_version)
    \/ MigratePending \/ MigrationRecorded \/ MigrateDone
    \/ \E o \in Outcomes : ApplyMigration(o)

RollbackStep ==
    \/ \E steps \in 0..MaxSteps : CallRollback(steps)
    \/ RollbackApplied \/ MigrationUnrecorded \/ RollbackDone
    \/ \E o \in Outcomes : RevertMigration(o)

StatusStep == CallStatus \/ StatusApplied \/ StatusPending

ManagerStep(names) ==
    \/ MigrateStep \/ RollbackStep \/ StatusStep \/ ManagerReturn \/ ClockTick
    \/ \E v \in names : AddMigration(v)
    \/ \E t \in SoloCallers :
          \/ SetupStep(t) \/ NamedStep(t)
          \/ GetConnection(t) \/ ReturnConnection(t)
          \/ mm.pc = "idle" /\ Return(t)

\* One caller that runs the MigrationManager over definitions with plain
\* names; a commit may fail, the pool works.
NextMig == ManagerStep(MigrationNames)
SpecMig == Init /\ [][NextMig]_vars

\* ... over definitions whose names html.escape may change.
NextMigNames == ManagerStep(EscapedNames)
SpecMigNames == Init /\ [][NextMigNames]_vars

\* One caller that applies migrations and asks for the status, while
\* releases may fail and the pool may be closed.
NextStatus ==
    \/ \E target_version \in {NoTarget} : CallMigrate(target_version)
    \/ MigratePending \/ MigrationRecorded \/ MigrateDone
    \/ ApplyMigration("ok")
    \/ StatusStep \/ ManagerReturn \/ ClockTick
    \/ \E v \in MigrationNames : AddMigration(v)
    \/ \E t \in SoloCallers :
          \/ SetupStep(t) \/ NamedStep(t) \/ PoolStep(t)
          \/ mm.pc = "idle" /\ (Return(t) \/ CallClose(t))

SpecStatus == Init /\ [][NextStatus]_vars

\* ------------------------------------------------- Database construction
\* `with cls._lock:` in __new__: the object registered under the path, a new
\* one when the path has none.
new_dict(obj, made, path) == IF obj[path] = NoObj THEN [obj EXCEPT ![path] = made + 1] ELSE obj

\* Database.__new__(cls, db_path), the whole critical section in one step.
DatabaseNew(t, path) ==
    /\ instances.ctor[t].pc = "idle" /\ instances.ctor[t].calls < MaxCalls
    /\ LET obj == new_dict(instances.obj, instances.made, path)
           self == obj[path] IN
         instances' = [instances EXCEPT
             !.obj = obj,
             !.made = IF self > @ THEN self ELSE @,
             !.ctor[t] = [@ EXCEPT !.pc = "init", !.path = path, !.self = self,
                                   !.got = NoObj, !.calls = @ + 1, !.res = "none",
                                   !.late = instances.o[self].closed]]
    /\ UNCHANGED <<pool, conn, nconn, table, th, ready, faults, shutdown, last,
                   users, migrations, mm, clock, tq, cache, mc>>

\* `if not hasattr(self, '_initialized'):` evaluated to ...
needs_init(o) == ~o.initialized

\* Database.__init__: the test of `_initialized`; an initialised object is
\* returned to the caller as it is.
DatabaseInitCheck(t) ==
    /\ instances.ctor[t].pc = "init"
    /\ LET self == instances.ctor[t].self IN
         instances' = [instances EXCEPT
             !.ctor[t] = IF needs_init(instances.o[self])
                         THEN [@ EXCEPT !.pc = "pool"]
                         ELSE [@ EXCEPT !.pc = "idle", !.got = self]]
    /\ UNCHANGED <<pool, conn, nconn, table, th, ready, faults, shutdown, last,
                   users, migrations, mm, clock, tq, cache, mc>>

\* Database.__init__: self.connection_pool = ConnectionPool(db_path, pool_size).
DatabaseInitPool(t) ==
    /\ instances.ctor[t].pc = "pool"
    /\ LET self == instances.ctor[t].self IN
         instances' = [instances EXCEPT
             !.o[self] = [@ EXCEPT !.pools = @ + 1, !.idle = PoolSize, !.closed = FALSE],
             !.ctor[t] = [@ EXCEPT !.pc = "setup"]]
    /\ UNCHANGED <<pool, conn, nconn, table, th, ready, faults, shutdown, last,
                   users, migrations, mm, clock, tq, cache, mc>>

\* Database.__init__: self._setup_tables() returns, or raises DatabaseError
\* and the constructor with it.
DatabaseInitSetup(t, ok) ==
    /\ instances.ctor[t].pc = "setup"
    /\ instances' = [instances EXCEPT
           !.ctor[t] = IF ok THEN [@ EXCEPT !.pc = "mark"]
                       ELSE [@ EXCEPT !.pc = "idle", !.res = "DatabaseError:failed"]]
    /\ UNCHANGED <<pool, conn, nconn, table, th, ready, faults, shutdown, last,
                   users, migrations, mm, clock, tq, cache, mc>>

\* Database.__init__: self._initialized = True, and the constructor returns.
DatabaseInitDone(t) ==
    /\ instances.ctor[t].pc = "mark"
    /\ LET self == instances.ctor[t].self IN
         instances' = [instances EXCEPT
             !.o[self] = [@ EXCEPT !.initialized = TRUE],
             !.ctor[t] = [@ EXCEPT !.pc = "idle", !.got = self]]
    /\ UNCHANGED <<pool, conn, nconn, table, th, ready, faults, shutdown, last,
                   users, migrations, mm, clock, tq, cache, mc>>

\* Database.close() -> close_all(): every connection idle in the queue is
\* closed and leaves it. A manager obtained after an earlier close is no
\* longer the latest one.
DatabaseClose(t) ==
    /\ instances.ctor[t].pc = "idle" /\ instances.ctor[t].got # NoObj
    /\ LET self == instances.ctor[t].got IN
         instances' = [instances EXCEPT
             !.o[self] = [@ EXCEPT !.idle = 0, !.closed = TRUE],
             !.ctor = [u \in Constructors |->
                         IF instances.ctor[u].got = self /\ instances.ctor[u].pc = "idle"
                         THEN [instances.ctor[u] EXCEPT !.late = FALSE, !.res = "none"]
                         ELSE instances.ctor[u]]]
    /\ UNCHANGED <<pool, conn, nconn, table, th, ready, faults, shutdown, last,
                   users, migrations, mm, clock, tq, cache, mc>>

\* Database.execute on the manager the caller holds: it borrows an idle
\* connection and gives it back, or waits the whole timeout for one in vain.
execute_result(o) == IF o.idle > 0 THEN "ok" ELSE "DatabaseError:exhausted"

DatabaseExecute(t) ==
    /\ instances.ctor[t].pc = "idle" /\ instances.ctor[t].got # NoObj
    /\ instances.ctor[t].res = "none"
    /\ instances' = [instances EXCEPT
           !.ctor[t].res = execute_result(instances.o[instances.ctor[t].got])]
    /\ UNCHANGED <<pool, conn, nconn, table, th, ready, faults, shutdown, last,
                   users, migrations, mm, clock, tq, cache, mc>>

\* Callers that construct managers for two paths, use them and close them.
NextDatabase ==
    \E t \in Constructors :
        \/ \E path \in Paths : DatabaseNew(t, path)
        \/ DatabaseInitCheck(t) \/ DatabaseInitPool(t)
        \/ \E ok \in BOOLEAN : DatabaseInitSetup(t, ok)
        \/ DatabaseInitDone(t)
        \/ DatabaseClose(t) \/ DatabaseExecute(t)

SpecDatabase == Init /\ [][NextDatabase]_vars

\* Two callers that write inside transaction() scopes, commit or not, and
\* leave them either way, while a third reads the table through fetch_all.
Reader == 3
NextScopes ==
    \/ \E t \in DbCallers : ScopeStep(t)
    \/ CallFetchAll(Reader, QSelectAll, <<>>) \/ RunStatement(Reader) \/ CursorUse(Reader)
    \/ \E t \in Threads :
          \/ SetupStep(t) \/ Return(t)
          \/ GetConnection(t) \/ Tick(t) \/ GetConnectionTimeout(t)
          \/ ReturnConnection(t) \/ ReturnConnectionBroken(t)
          \/ ReplaceConnection(t) \/ ReplaceConnectionFails(t)

SpecScopes == Init /\ [][NextScopes]_vars

\* A Database whose pool holds one connection (database.pool_size = 1), and a
\* MigrationManager over an empty migrations directory.
InitSingle ==
    /\ pool = <<1>>
    /\ conn = [c \in ConnIds |-> IF c = 1 THEN FreshConn ELSE NoneConn]
    /\ nconn = 1
    /\ table = <<>>
    /\ th = [t \in Threads |-> IdleTh]
    /\ ready = FALSE
    /\ faults = 0
    /\ shutdown = FALSE
    /\ last = NoLast
    /\ users = <<>>
    /\ migrations = <<>>
    /\ clock = 0
    /\ mm = IdleManager({}, {}, NoPrev)
    /\ InitDatabase /\ InitTaskQueue /\ InitCache /\ InitCallers

\* One caller that uses execute, the fetches, insert, update, delete and the
\* MigrationManager, one call after the other, on that pool; commits,
\* rollbacks and reconnects may fail.
NextSingle ==
    \/ ManagerStep({<<"2">>})
    \/ \E t \in SoloCallers :
          \/ Tick(t) \/ GetConnectionTimeout(t)
          \/ ReturnConnectionBroken(t) \/ ReplaceConnection(t) \/ ReplaceConnectionFails(t)
          \/ StatementStep(t)
          \/ /\ mm.pc = "idle"
             /\ \/ CallExecute(t, QDeleteAll, <<>>, TRUE)
                \/ CallFetchAll(t, QSelectAll, <<>>)
                \/ CallFetchOne(t, QSelect, <<1>>)
                \/ CallInsert(t, <<"a">>, TRUE)
                \/ CallUpdate(t, <<"a">>, where_id, <<1>>, TRUE)
                \/ CallDelete(t, where_id, <<1>>)

SpecSingle == InitSingle /\ [][NextSingle]_vars

\* ------------------------------------- migrate / rollback, several callers
\* The calls of two callers, one step per database statement and per up or
\* down; every statement works (its faults are the subject of SpecMig).
McFrame ==
    UNCHANGED <<pool, conn, nconn, table, th, ready, faults, shutdown, last,
                users, mm, clock, instances, tq, cache>>

mc_done(k, result) == [mc EXCEPT !.run[k].pc = "done", !.run[k].result = result]

\* A migration definition is put into the migrations directory.
McAddMigration(v) ==
    /\ v \notin mc.files
    /\ mc' = [mc EXCEPT !.files = @ \cup {v}]
    /\ UNCHANGED migrations /\ McFrame

\* migrate(): get_pending_migrations() and `if not pending: return True`.
McCallMigrate(k) ==
    /\ mc.run[k].pc = "idle"
    /\ \E applied \in ordered_by_applied_at(migrations) :
         LET pending == pending_of(mc.files, applied) IN
         mc' = IF pending = <<>>
               THEN [mc EXCEPT !.run[k] = [IdleCaller EXCEPT !.pc = "done", !.op = "migrate",
                                                             !.result = "True"]]
               ELSE [mc EXCEPT !.run[k] = [IdleCaller EXCEPT !.pc = "loop", !.op = "migrate",
                                                             !.batch = pending, !.i = 1]]
    /\ UNCHANGED migrations /\ McFrame

\* rollback(steps): get_applied_migrations(), `if not applied: return True`
\* and the choice of the migrations to revert.
McCallRollback(k, steps) ==
    /\ mc.run[k].pc = "idle"
    /\ \E applied \in ordered_by_applied_at(migrations) :
         mc' = IF applied = <<>>
               THEN [mc EXCEPT !.run[k] = [IdleCaller EXCEPT !.pc = "done", !.op = "rollback",
                                                             !.result = "True"]]
               ELSE [mc EXCEPT !.run[k] = [IdleCaller EXCEPT
                                              !.pc = "loop", !.op = "rollback", !.i = 1,
                                              !.batch = reversed(last_of(applied, steps))]]
    /\ UNCHANGED migrations /\ McFrame

\* _apply_migration / _revert_migration: migration.up(db) / migration.down(db)
\* is called and starts to run its statements.
McBegin(k) ==
    /\ mc.run[k].pc = "loop" /\ mc.run[k].i <= Len(mc.run[k].batch)
    /\ mc' = [mc EXCEPT !.run[k].pc = "run"]
    /\ UNCHANGED migrations /\ McFrame

\* ... and returns True or False.
McEnd(k, ok) ==
    /\ mc.run[k].pc = "run"
    /\ mc' = IF ok THEN [mc EXCEPT !.run[k].pc = "record"] ELSE mc_done(k, "False")
    /\ UNCHANGED migrations /\ McFrame

\* _apply_migration: db.insert('migrations', ...); a version recorded
\* already makes it raise, and _apply_migration return False.
McRecord(k) ==
    /\ mc.run[k].pc = "record" /\ mc.run[k].op = "migrate"
    /\ LET v == mc.run[k].batch[mc.run[k].i]
           r == migrations_insert(migrations, insert_into("migrations", record_columns),
                                  <<sanitized(v, TRUE), sanitized(Description, TRUE)>>, clock) IN
         /\ migrations' = r.rows
         /\ mc' = IF r.ok THEN [mc EXCEPT !.run[k].pc = "loop", !.run[k].i = @ + 1]
                  ELSE mc_done(k, "False")
    /\ McFrame

\* _revert_migration: db.delete('migrations', 'version = ?', (name,)).
McUnrecord(k) ==
    /\ mc.run[k].pc = "record" /\ mc.run[k].op = "rollback"
    /\ migrations' = migrations_delete(migrations, <<mc.run[k].batch[mc.run[k].i]>>).rows
    /\ mc' = [mc EXCEPT !.run[k].pc = "loop", !.run[k].i = @ + 1]
    /\ McFrame

\* migrate / rollback: the loop is through, `return True`.
McLoopDone(k) ==
    /\ mc.run[k].pc = "loop" /\ mc.run[k].i > Len(mc.run[k].batch)
    /\ mc' = mc_done(k, "True")
    /\ UNCHANGED migrations /\ McFrame

\* The call returns to its caller.
McReturn(k) ==
    /\ mc.run[k].pc = "done"
    /\ mc' = [mc EXCEPT !.run[k] = IdleCaller]
    /\ UNCHANGED migrations /\ McFrame

NextCallers ==
    \/ \E v \in MigrationNames : McAddMigration(v)
    \/ \E k \in MigrationCallers :
          \/ McCallMigrate(k)
          \/ \E steps \in 0..MaxSteps : McCallRollback(k, steps)
          \/ McBegin(k) \/ McLoopDone(k) \/ McReturn(k)
          \/ \E ok \in BOOLEAN : McEnd(k, ok)
          \/ McRecord(k) \/ McUnrecord(k)

SpecCallers == Init /\ [][NextCallers]_vars

\* --------------------------------------------------------------- TaskQueue
TqFrame ==
    UNCHANGED <<pool, conn, nconn, table, th, ready, faults, shutdown, last,
                users, migrations, mm, clock, instances, cache, mc>>

\* The entries of the PriorityQueue are the tuples (-priority, task).
entry(priority, id) == [p |-> 0 - priority, id |-> id]

\* (-p1, task1) < (-p2, task2): the first components decide; when they are
\* equal the tasks are compared, and Task defines no ordering (TypeError).
lt_raises(a, b) == a.p = b.p
lt(a, b) == a.p < b.p

swap(h, i, j) == [h EXCEPT ![i] = h[j], ![j] = h[i]]

\* heapq._siftdown(heap, startpos, pos), positions counted from 1: the
\* entry at pos moves towards the root while it is smaller than its parent.
RECURSIVE siftdown(_, _, _)
siftdown(h, startpos, pos) ==
    IF pos <= startpos THEN [heap |-> h, raised |-> FALSE]
    ELSE LET parentpos == pos \div 2 IN
         IF lt_raises(h[pos], h[parentpos]) THEN [heap |-> h, raised |-> TRUE]
         ELSE IF lt(h[pos], h[parentpos]) THEN siftdown(swap(h, pos, parentpos), startpos, parentpos)
         ELSE [heap |-> h, raised |-> FALSE]

\* heapq._siftup(heap, pos): the smaller child moves up until a leaf is
\* reached, then the entry is sifted down from there.
RECURSIVE siftup(_, _, _)
siftup(h, startpos, pos) ==
    IF 2 * pos > Len(h) THEN siftdown(h, startpos, pos)
    ELSE LET left == 2 * pos
             right == left + 1 IN
         IF right <= Len(h) /\ lt_raises(h[left], h[right])
         THEN [heap |-> h, raised |-> TRUE]
         ELSE LET childpos == IF right <= Len(h) /\ ~lt(h[left], h[right])
                              THEN right ELSE left
              IN siftup(swap(h, pos, childpos), startpos, childpos)

\* heapq.heappush(heap, item)
heappush(h, item) == siftdown(Append(h, item), 1, Len(h) + 1)

\* heapq.heappop(heap): the last entry takes the place of the root and is
\* sifted; when a comparison raises, the root entry is returned to nobody.
heappop(h) ==
    LET lastelt == h[Len(h)]
        rest == SubSeq(h, 1, Len(h) - 1) IN
    IF rest = <<>> THEN [item |-> lastelt, heap |-> rest, raised |-> FALSE]
    ELSE LET r == siftup([rest EXCEPT ![1] = lastelt], 1, 1) IN
         [item |-> h[1], heap |-> r.heap, raised |-> r.raised]

\* The threads that run _worker_loop.
Looping == {i \in WorkerIds : tq.w[i].pc \in {"test", "get", "func"}}

\* start(): nothing on a running queue; else is_running is set and
\* num_workers threads are created, started and appended to self.workers.
TqStart ==
    /\ tq.caller.pc = "idle"
    /\ tq.is_running \/ tq.starts < MaxStarts
    /\ tq' = IF tq.is_running THEN tq
             ELSE [tq EXCEPT
                     !.is_running = TRUE, !.starts = @ + 1,
                     !.threads = @ + NumWorkers,
                     !.workers = @ \o [k \in 1..NumWorkers |-> tq.threads + k],
                     !.w = [i \in WorkerIds |->
                              IF i \in (tq.threads + 1)..(tq.threads + NumWorkers)
                              THEN [pc |-> "test", task |-> NoTask] ELSE tq.w[i]]]
    /\ TqFrame

\* stop(): is_running = False, then the joins begin.
TqStop ==
    /\ tq.caller.pc = "idle"
    /\ tq' = [tq EXCEPT !.is_running = FALSE, !.caller = [pc |-> "join", j |-> 1]]
    /\ TqFrame

\* worker.join(timeout=5) returns: the thread has ended, or the five seconds
\* are over. A thread that waits in get(timeout=1) or tests is_running is
\* through within them; one that runs a task's function need not be.
join_returns(worker) == worker.pc \in {"dead", "func"}

TqJoin ==
    /\ tq.caller.pc = "join" /\ tq.caller.j <= Len(tq.workers)
    /\ join_returns(tq.w[tq.workers[tq.caller.j]])
    /\ tq' = [tq EXCEPT !.caller.j = @ + 1]
    /\ TqFrame

\* stop(): self.workers.clear(), and stop returns.
TqStopped ==
    /\ tq.caller.pc = "join" /\ tq.caller.j > Len(tq.workers)
    /\ tq' = [tq EXCEPT !.workers = <<>>, !.caller = [pc |-> "idle", j |-> 0]]
    /\ TqFrame

\* add_task(func, priority=priority): the Task is created and registered,
\* then put((-priority, task)); a TypeError of the heap reaches the caller.
TqAddTask(priority) ==
    /\ tq.caller.pc = "idle" /\ tq.added < MaxTasks
    /\ LET id == tq.added + 1
           r == heappush(tq.heap, entry(priority, id)) IN
         tq' = [tq EXCEPT
                  !.added = id,
                  !.tasks[id] = [status |-> "pending", priority |-> priority, runs |-> 0,
                                 raised |-> r.raised],
                  !.heap = r.heap]
    /\ TqFrame

\* _worker_loop: `while self.is_running:`.
TqWorkerTest(i) ==
    /\ tq.w[i].pc = "test"
    /\ tq' = [tq EXCEPT !.w[i].pc = IF tq.is_running THEN "get" ELSE "dead"]
    /\ TqFrame

\* _worker_loop: task_queue.get(timeout=1) raises queue.Empty: `continue`.
TqWorkerEmpty(i) ==
    /\ tq.w[i].pc = "get" /\ tq.heap = <<>>
    /\ tq' = [tq EXCEPT !.w[i].pc = "test"]
    /\ TqFrame

\* _worker_loop: get returns an entry and task.execute() sets the status
\* 'running'; or the heap raises TypeError, which the loop logs.
TqWorkerGet(i) ==
    /\ tq.w[i].pc = "get" /\ tq.heap # <<>>
    /\ LET r == heappop(tq.heap) IN
         tq' = IF r.raised
               THEN [tq EXCEPT !.heap = r.heap, !.w[i].pc = "test"]
               ELSE [tq EXCEPT !.heap = r.heap,
                               !.w[i] = [pc |-> "func", task |-> r.item.id],
                               !.tasks[r.item.id].status = "running",
                               !.tasks[r.item.id].runs = @ + 1]
    /\ TqFrame

\* Task.execute: the function returns or raises; then task_queue.task_done(),
\* which counts inside the queue (nothing here reads that count) and whose
\* ValueError the loop logs.
TqWorkerFinish(i, ok) ==
    /\ tq.w[i].pc = "func"
    /\ tq' = [tq EXCEPT
                !.tasks[tq.w[i].task].status = IF ok THEN "completed" ELSE "failed",
                !.w[i] = [pc |-> "test", task |-> NoTask]]
    /\ TqFrame

\* wait_for_task(task_id) is called (no timeout).
TqWait(id) ==
    /\ tq.wait.pc = "idle"
    /\ tq' = [tq EXCEPT !.wait = [pc |-> "poll", id |-> id, res |-> "none"]]
    /\ TqFrame

\* wait_for_task: one round of the loop, when it ends the call.
wait_outcome(task) ==
    CASE task.status = "none" -> "PyFusionError:not found"
      [] task.status = "failed" -> "PyFusionError:failed"
      [] task.status = "completed" -> "result"
      [] OTHER -> "none"

TqWaitPoll ==
    /\ tq.wait.pc = "poll"
    /\ wait_outcome(tq.tasks[tq.wait.id]) # "none"
    /\ tq' = [tq EXCEPT !.wait.pc = "done", !.wait.res = wait_outcome(tq.tasks[tq.wait.id])]
    /\ TqFrame

\* wait_for_task has returned or raised.
TqWaitReturn ==
    /\ tq.wait.pc = "done"
    /\ tq' = [tq EXCEPT !.wait = NoWait]
    /\ TqFrame

TqWorkerStep(i) ==
    \/ TqWorkerTest(i) \/ TqWorkerEmpty(i) \/ TqWorkerGet(i)
    \/ \E ok \in BOOLEAN : TqWorkerFinish(i, ok)

TqWaitStep == (\E id \in TaskIds : TqWait(id)) \/ TqWaitPoll \/ TqWaitReturn

\* A caller that starts and stops the queue and adds tasks, and the worker
\* threads.
NextTasks ==
    \/ TqStart \/ TqStop \/ TqJoin \/ TqStopped
    \/ \E priority \in Priorities : TqAddTask(priority)
    \/ \E i \in WorkerIds : TqWorkerStep(i)

SpecTasks == Init /\ [][NextTasks]_vars

\* add_task on a queue that is running.
TqAddRunning(priority) == tq.is_running /\ TqAddTask(priority)

\* A queue that is started and never stopped: a caller that adds tasks, the
\* worker threads, and a caller that waits for tasks.
NextRunning ==
    \/ TqStart
    \/ \E priority \in Priorities : TqAddRunning(priority)
    \/ \E i \in WorkerIds : TqWorkerStep(i)
    \/ TqWaitStep

\* Every worker thread is scheduled again and again, its get(timeout=1)
\* returns or times out, the function of a task comes to an end, and the
\* polling loop of wait_for_task goes on.
FairRunning ==
    /\ \A i \in WorkerIds : WF_vars(TqWorkerStep(i))
    /\ WF_vars(TqWaitPoll)

SpecRunning == Init /\ [][NextRunning]_vars /\ FairRunning

\* ------------------------------------------------------------------- Cache
CacheFrame ==
    UNCHANGED <<pool, conn, nconn, table, th, ready, faults, shutdown, last,
                users, migrations, mm, clock, instances, tq, mc>>

\* `key in self._cache`
cached(items, key) == items[key] # NoItem

\* _cleanup_expired at time now: nothing unless cleanup_interval seconds have
\* passed since the last clean-up; else every entry with
\* expires_at < current_time is deleted.
cleanup_due(last_cleanup, now) == ~(now - last_cleanup < cleanup_interval)

cleanup_expired(c) ==
    IF cleanup_due(c.last_cleanup, c.now)
    THEN [c EXCEPT !.items = [key \in Keys |->
                                IF cached(c.items, key) /\ c.items[key].expires_at < c.now
                                THEN NoItem ELSE c.items[key]],
                   !.last_cleanup = c.now]
    ELSE c

\* The entry of key is past its expiry time.
expired(c, key) == cached(c.items, key) /\ c.items[key].expires_at < c.now

\* Cache.set(key, value, ttl)
CacheSet(key, value, ttl) ==
    /\ LET c == cleanup_expired(cache) IN
         cache' = [c EXCEPT !.items[key] = [value |-> value, expires_at |-> c.now + ttl],
                            !.out = [op |-> "set", key |-> key, result |-> "True",
                                     stale |-> FALSE]]
    /\ CacheFrame

\* Cache.get(key)
CacheGet(key) ==
    /\ LET c == cleanup_expired(cache) IN
         cache' = [c EXCEPT !.out = [op |-> "get", key |-> key,
                                     result |-> IF cached(c.items, key)
                                                THEN c.items[key].value ELSE "None",
                                     stale |-> expired(c, key)]]
    /\ CacheFrame

\* Cache.exists(key)
CacheExists(key) ==
    /\ LET c == cleanup_expired(cache) IN
         cache' = [c EXCEPT !.out = [op |-> "exists", key |-> key,
                                     result |-> IF cached(c.items, key) THEN "True" ELSE "False",
                                     stale |-> expired(c, key)]]
    /\ CacheFrame

\* Cache.delete(key)
CacheDelete(key) ==
    /\ cache' = [cache EXCEPT !.items[key] = NoItem,
                              !.out = [op |-> "delete", key |-> key,
                                       result |-> IF cached(cache.items, key)
                                                  THEN "True" ELSE "False",
                                       stale |-> FALSE]]
    /\ CacheFrame

\* Time passes.
CacheTick ==
    /\ cache.now + TimeStep <= MaxTime
    /\ cache' = [cache EXCEPT !.now = @ + TimeStep]
    /\ CacheFrame

NextCache ==
    \/ CacheTick
    \/ \E key \in Keys :
          \/ \E ttl \in Ttls : CacheSet(key, "v", ttl)
          \/ CacheGet(key) \/ CacheExists(key) \/ CacheDelete(key)

SpecCache == Init /\ [][NextCache]_vars

\* ================================================================== claims
Holders == {t \in Threads : th[t].c # NoConn}
InCirculation == Len(pool) + Cardinality(Holders)
DbErrors == {"DatabaseError:failed", "DatabaseError:create", "DatabaseError:exhausted"}

\* C1: at no time are more than PoolSize connections checked out, and the idle
\* and the checked-out connections together never number more than PoolSize.
C1_PoolBounded ==
    /\ Cardinality(Holders) <= PoolSize
    /\ InCirculation <= PoolSize
    /\ \A t, u \in Threads : t # u /\ th[t].c # NoConn => th[t].c # th[u].c
    /\ \A t \in Threads : th[t].c # NoConn => th[t].c \notin Idle

\* Every slot is checked out at once, one of them a replacement for a
\* connection whose rollback failed, and the pool has been closed before.
C1_Witness == Cardinality(Holders) = PoolSize /\ nconn > PoolSize /\ shutdown

\* C3: an idle connection has no open transaction, and a checked-out
\* connection carries no transaction of anybody but its holder, so the work a
\* holder left uncommitted is rolled back before the next holder gets the
\* connection.
C3_CleanOnAcquire ==
    /\ \A i \in 1..Len(pool) : conn[pool[i]].owner = NoTxn /\ conn[pool[i]].work = <<>>
    /\ \A t \in Threads : th[t].c # NoConn => conn[th[t].c].owner \in {NoTxn, t}

\* A caller left its scope with an open transaction, no connection was ever
\* replaced, and all connections (that caller's among them) are now held by
\* other callers, clean, with nothing committed.
C3_Witness ==
    \E t, u \in Threads :
        /\ th[t].pc = "done" /\ th[t].m = "transaction" /\ th[t].num = 1
        /\ th[u].pc = "scope" /\ conn[th[u].c].owner = NoTxn
        /\ Cardinality(Holders) = PoolSize /\ nconn = PoolSize /\ table = <<>>

\* C4 as claimed: whenever no release and no close_all is under way (and the
\* pool was never closed), idle plus checked-out connections number PoolSize.
C4_SizeRestored ==
    (~shutdown /\ \A t \in Threads : th[t].pc \notin {"replace", "closing"})
        => InCirculation = PoolSize

\* C5: get_connection fails only when the queue is empty and the caller has
\* waited the whole Timeout; the failing call returns to its caller without a
\* connection and leaves the idle queue and the checked-out connections as
\* they were.
C5_Fails(t) == th[t].err # "DatabaseError:exhausted" /\ th'[t].err = "DatabaseError:exhausted"
C5_ExhaustedAfterTimeout ==
    [][\A t \in Threads :
          C5_Fails(t) =>
              /\ th[t].pc = "acquire" /\ pool = <<>> /\ th[t].waited = Timeout
              /\ th'[t].pc = "done" /\ th'[t].c = NoConn
              /\ pool' = pool /\ conn' = conn
              /\ \A u \in Threads : th'[u].c = th[u].c]_vars

\* Both connections of the pool are held by two callers, and the third
\* caller's acquire has failed after the timeout.
C5_Witness ==
    \E t \in Threads :
        /\ th[t].pc = "done" /\ th[t].err = "DatabaseError:exhausted"
        /\ th[t].waited = Timeout
        /\ Cardinality(Holders) = PoolSize /\ nconn = PoolSize /\ ~shutdown

\* C6 as claimed: once close_all has returned no connection is open any more
\* and the queue stays empty, so that every later get_connection fails.
C6_ClosedForGood ==
    shutdown => /\ \A c \in ConnIds : conn[c].st # "open"
                /\ pool = <<>>

\* ------------------------------------------------------------------------
ExecFamily == {"execute", "fetch_all", "fetch_one", "insert", "update", "delete"}
Scoped == ExecFamily \cup {"_setup_tables", "transaction"}

\* C2 as claimed: no connection is in use by two operations at once, where an
\* operation uses a connection while it holds it and until it has read the
\* cursor it created on it.
C2_Exclusive ==
    \A t, u \in Threads :
        t # u => /\ ~(th[t].c # NoConn /\ th[t].c = th[u].c)
                 /\ ~(th[t].pc = "cursor" /\ th[u].c = th[t].cur)

\* C7: a caller inside a scope holds its connection, unreleased; once the
\* scope is left, by return or by exception, the connection has been handed
\* to return_connection exactly once and the caller holds it no more.
C7_ReleasedOnce ==
    \A t \in Threads :
        /\ th[t].pc \in {"body", "scope", "exit"} => th[t].c # NoConn /\ th[t].rel = 0
        /\ th[t].pc \in {"replace", "cursor"} => th[t].c = NoConn /\ th[t].rel = 1
        /\ (th[t].pc = "done" /\ th[t].m \in Scoped) =>
              /\ th[t].c = NoConn
              /\ th[t].rel = IF th[t].err \in {"SecurityError", "DatabaseError:exhausted"}
                             THEN 0 ELSE 1

\* An insert that the store refused raises into its caller, and a
\* transaction scope left by an exception does: both released once.
C7_Witness ==
    \E t \in Threads :
        /\ th[t].pc = "done" /\ th[t].rel = 1 /\ th[t].c = NoConn
        /\ \/ th[t].m = "insert" /\ th[t].err = "DatabaseError:failed"
           \/ th[t].m = "transaction" /\ th[t].err = "UserError" /\ th[t].num = 1

KeywordSet == {"DROP", "DELETE", "INSERT", "UPDATE", "CREATE", "ALTER"}
C8_Mentions(q) == \E i \in 1..Len(q) : upper(q[i]) \in KeywordSet
C8_NoPlaceholder(q) == \A i \in 1..Len(q) : q[i] # "?"
C8_Checked(t) == th[t].m = "execute" /\ th[t].chk

\* C8 as claimed: a checked execute whose statement mentions a mutating
\* keyword and has no placeholder ends in SecurityError.
C8_AlwaysRejected ==
    \A t \in Threads :
        (C8_Checked(t) /\ C8_Mentions(th[t].query) /\ C8_NoPlaceholder(th[t].query))
            => th[t].pc = "done" /\ th[t].err = "SecurityError"

C8_Flagged(q, p) ==
    /\ p # <<>>
    /\ C8_NoPlaceholder(q)
    /\ \E i \in 1..(Len(q) - 2) :
          q[i] = " " /\ upper(q[i + 1]) \in KeywordSet /\ q[i + 2] = " "

\* C8 amended: a checked execute that is given parameters and whose statement
\* has no placeholder and a mutating keyword (in either case) standing between
\* two blanks fails with SecurityError at the call, holding no connection and
\* leaving the pool, the connections and the table as they were.
C8_RejectedBeforeBorrow ==
    [][\A t \in Threads :
          (th[t].pc = "idle" /\ th'[t].m = "execute" /\ th'[t].chk
             /\ C8_Flagged(th'[t].query, th'[t].params))
          => /\ th'[t].pc = "done" /\ th'[t].err = "SecurityError" /\ th'[t].c = NoConn
             /\ UNCHANGED <<pool, conn, nconn, table>>]_vars

\* execute(" delete ", (1,)) was rejected while the whole pool is idle.
C8_Witness ==
    \E t \in Threads :
        /\ th[t].pc = "done" /\ th[t].err = "SecurityError"
        /\ th[t].query = <<" ", "delete", " ">> /\ th[t].params = <<1>>
        /\ Len(pool) = PoolSize

C9_Refused(t) == th[t].pc = "done" /\ th[t].m \in ExecFamily /\ th[t].exc = "sqlite"
C9_Clean(c) == conn[c].st = "open" /\ conn[c].owner = NoTxn /\ conn[c].work = <<>>
C9_Outcome(t) ==
    /\ th[t].err \in DbErrors
    /\ table = th[t].snap
    /\ th[t].c = NoConn

C10_FetchedBack(t) ==
    /\ th[t].pc = "done" /\ th[t].m = "fetch_one" /\ th[t].err = "none"
    /\ last.id # 0 /\ last.san /\ th[t].params = <<last.id>>

HtmlSpecial == {"&", "<", ">", "\"", "'"}
C10_Plain(v) ==
    /\ \A i \in 1..Len(v) : v[i] \notin HtmlSpecial
    /\ v # <<>> => v[1] \notin Whitespace /\ v[Len(v)] \notin Whitespace

UsersInsert(t) == th[t].m = "insert" /\ target(th[t].query) = "users"
UsernameOf(t) == bound(th[t].query, th[t].params, "username")
UsernameTaken(name) == \E i \in 1..Len(users) : users[i].username = name

C12_DemoInsertSucceeds ==
    \A t \in Threads :
        (/\ UsersInsert(t) /\ columns_of(th[t].query) = DemoColumns
         /\ th[t].pc = "done" /\ users = <<>>
         /\ faults = 0 /\ ~shutdown /\ \A u \in Threads \ {t} : th[u].pc = "idle")
        => th[t].err = "none" /\ th[t].num > 0

\* ------------------------------------------------------------------------
Versions == Range(recorded(migrations))
Before == Range(recorded(mm.before))
ManagerDone(op) == mm.pc = "done" /\ mm.op = op
NoDuplicate(q) == \A i, j \in 1..Len(q) : i # j => q[i] # q[j]
Prefix(q, n) == SubSeq(q, 1, n)

\* _apply_migration / _revert_migration has come back for a migration.
C13_Settled ==
    /\ mm.op \in {"migrate", "rollback"}
    /\ \/ mm.pc = "loop" /\ mm.i > 1
       \/ mm.pc = "done" /\ mm.failed > 0
C13_Version == IF mm.pc = "loop" THEN mm.batch[mm.i - 1] ELSE mm.batch[mm.failed]
C13_Succeeded == (mm.pc = "loop") \/ mm.upok

\* C13 as claimed (here even with no database fault at all): once the
\* manager is through with a migration, a pending one is recorded exactly
\* when its up succeeded, an applied one is still recorded exactly when its
\* down did not succeed, and no other record has changed.
C13_RecordFollowsOutcome ==
    (C13_Settled /\ faults = 0) =>
        /\ (C13_Version \in Versions) = (IF mm.op = "migrate" THEN C13_Succeeded
                                         ELSE ~C13_Succeeded)
        /\ \A v \in (Versions \cup Before) \ Range(mm.batch) : v \in Versions /\ v \in Before

\* C14 as claimed: no version is recorded twice, and outside the moment
\* between an up or down and the write of its record, the recorded versions
\* are the migrations whose up has taken effect and has not been undone.
C14_RecordMeansApplied ==
    /\ NoDuplicate(recorded(migrations))
    /\ mm.pc \notin {"record", "unrecord"} => Versions = mm.effect

\* C15: migrate(target) invokes up on versions that were pending when it was
\* called, in strictly ascending order and never beyond the target; when it
\* returns True it has invoked up on exactly the pending versions up to the
\* target (all of them without target), and recorded them.
C15_AscendingUpToTarget ==
    mm.op = "migrate" =>
        /\ \A i, j \in 1..Len(mm.ran) : i < j => str_lt(mm.ran[i], mm.ran[j])
        /\ Range(mm.ran) \subseteq mm.files \ Before
        /\ mm.target # NoTarget => \A k \in 1..Len(mm.ran) : str_le(mm.ran[k], mm.target)
        /\ (mm.pc = "done" /\ mm.result = "True") =>
              /\ Range(mm.ran) = {v \in mm.files \ Before :
                                    mm.target = NoTarget \/ str_le(v, mm.target)}
              /\ Versions = Before \cup Range(mm.ran)

\* migrate("10") returned True with "10" and "2" pending: "10" is applied,
\* "2" is pending still.
C15_Witness ==
    /\ ManagerDone("migrate") /\ mm.result = "True"
    /\ mm.target = <<"1", "0">> /\ mm.ran = <<<<"1", "0">>>>
    /\ mm.files = MigrationNames /\ Versions = {<<"1", "0">>}

\* C16 as claimed: a rollback(steps) that returned True invoked down on the
\* min(steps, number applied) migrations applied last, the last applied first.
C16_RevertsLastApplied ==
    (ManagerDone("rollback") /\ mm.result = "True")
        => mm.ran = reversed(last_of(recorded(mm.before), mm.steps))

\* C17: when the up (or down) of the k-th migration of the batch fails, the
\* call returns False, no up (or down) of a later migration has been invoked,
\* the migrations before the k-th are recorded (or, in a rollback, unrecorded)
\* and the k-th and the later ones are as they were.
C17_StopsAtFailure ==
    (mm.op \in {"migrate", "rollback"} /\ mm.failed > 0) =>
        LET k == mm.failed
            done == Range(Prefix(mm.batch, k - 1)) IN
        /\ mm.pc = "done" /\ mm.result = "False"
        /\ mm.ran \in {Prefix(mm.batch, k - 1), Prefix(mm.batch, k)}
        /\ ~mm.upok => Versions = IF mm.op = "migrate" THEN Before \cup done
                                  ELSE Before \ done
        /\ ~mm.upok => \A j \in k..Len(mm.batch) :
                          (mm.batch[j] \in Versions) = (mm.op = "rollback")

\* A batch of two whose first up failed: migrate returned False and the
\* second up was not invoked.
C17_Witness ==
    /\ ManagerDone("migrate") /\ mm.result = "False"
    /\ Len(mm.batch) = 2 /\ mm.failed = 1 /\ ~mm.upok
    /\ mm.ran = <<mm.batch[1]>> /\ Versions = {}

\* C18 as claimed: status() right after a migrate() that returned True and
\* applied something reports no pending migration, the migration that call
\* applied last as current_version, disjoint lists and their lengths.
C18_StatusAfterMigrate ==
    (/\ ManagerDone("status") /\ mm.result = "True"
     /\ mm.prev.op = "migrate" /\ mm.prev.ran # <<>> /\ mm.prev.files = mm.files)
    => /\ mm.out.pending = <<>>
       /\ mm.out.current_version = mm.prev.ran[Len(mm.prev.ran)]
       /\ Range(mm.out.applied) \cap Range(mm.out.pending) = {}
       /\ mm.out.total_applied = Len(mm.out.applied)
       /\ mm.out.total_pending = Len(mm.out.pending)

\* C19: with every migration applied, a rollback(1) that returned True
\* followed by a migrate() in which no up fails and the database does not
\* fail: migrate returns True, the recorded versions are those recorded
\* before the rollback, and nothing is pending.
C19_RoundTrip ==
    (/\ ManagerDone("migrate") /\ mm.target = NoTarget
     /\ mm.prev.op = "rollback" /\ mm.prev.files = mm.files
     /\ mm.files \subseteq mm.prev.before
     /\ faults = 0 /\ ~(mm.failed > 0 /\ ~mm.upok))
    => /\ mm.result = "True"
       /\ Versions = mm.prev.before
       /\ pending_of(mm.files, recorded(migrations)) = <<>>

\* Both migrations were applied, rollback(1) reverted one, and migrate() has
\* applied it again.
C19_Witness ==
    /\ ManagerDone("migrate") /\ mm.target = NoTarget /\ mm.result = "True"
    /\ mm.prev.op = "rollback" /\ mm.prev.before = MigrationNames
    /\ mm.files = MigrationNames /\ Len(mm.ran) = 1 /\ Versions = MigrationNames
    /\ faults = 0

C20_Discarded == {c \in mm.idle0 : conn[c].st = "discarded"}

Handed == {t \in Constructors : instances.ctor[t].got # NoObj}

\* C21: however the constructions of Database(path) by several threads
\* interleave, the constructions for one path yield one and the same object,
\* those for different paths yield different objects, and an object is
\* initialised exactly once: no more than one ConnectionPool is ever created
\* for it.
C21_InitialisedOnce ==
    /\ \A t, u \in Handed :
          (instances.ctor[t].path = instances.ctor[u].path)
              <=> (instances.ctor[t].got = instances.ctor[u].got)
    /\ \A k \in ObjIds : instances.o[k].pools <= 1

\* C25: a manager obtained by Database(path) after close() on the manager
\* of that path holds pool_size open connections again, so that execute on
\* it succeeds without waiting for the acquire timeout.
C25_UsableAfterReopen ==
    \A t \in Handed :
        instances.ctor[t].pc = "idle" /\ instances.ctor[t].late
            => /\ instances.o[instances.ctor[t].got].idle = PoolSize
               /\ instances.ctor[t].res # "DatabaseError:exhausted"

\* C23: rollback(steps) reverts no more than steps migrations, for every
\* steps >= 0; rollback(0) invokes no down and leaves the records as they are.
C23_AtMostSteps ==
    ManagerDone("rollback") =>
        /\ Len(mm.ran) <= mm.steps
        /\ mm.steps = 0 => mm.ran = <<>> /\ migrations = mm.before

\* C24: the version recorded for a migration whose up succeeded and whose
\* record was written is its filename-derived name, whatever characters the
\* name holds: the migration is among the recorded versions and no longer
\* pending.
C24_RecordedUnderItsName ==
    (mm.op = "migrate" /\ mm.pc = "loop") =>
        \A j \in 1..(mm.i - 1) :
            /\ mm.batch[j] \in Versions
            /\ mm.batch[j] \notin Range(pending_of(mm.files, recorded(migrations)))

\* The callers that have left a transaction() scope and released its connection.
C26_Left == {t \in DbCallers : th[t].m = "transaction" /\ th[t].pc \in {"replace", "done"}}

\* The rows of a result set are committed rows of the table.
C26_Committed(rs) ==
    \A k \in 1..Len(rs) : rs[k][1] \in 1..Len(table) /\ table[rs[k][1]] = rs[k][2]

C27_Finished ==
    {t \in SoloCallers : th[t].m \in ExecFamily /\ th[t].pc \in {"cursor", "done"}}

\* The part of C27 about nesting alone: no operation asks for a connection
\* while the caller holds one.
C27_NoNesting ==
    /\ Cardinality(Holders) <= 1
    /\ \A t \in SoloCallers : th[t].pc = "acquire" => th[t].c = NoConn /\ Holders = {}

\* C27: a single caller that uses only execute, the fetches, insert, update,
\* delete and migrate / rollback / status holds at most one pooled connection
\* at a time; on a pool of one connection none of these operations fails with
\* pool exhaustion, and after each of them as many connections are idle as
\* before it (here: the one the pool was built with).
C27_NeverExhausted ==
    /\ C27_NoNesting
    /\ \A t \in SoloCallers : th[t].m \in ExecFamily => th[t].err # "DatabaseError:exhausted"
    /\ \A t \in C27_Finished : Len(pool) = 1

\* The callers whose up or down is running.
C22_Running == {k \in MigrationCallers : mc.run[k].pc = "run"}

\* C22: at any moment at most one up or down is in progress, and no up runs
\* while its migration is recorded as applied, also when two callers invoke
\* migrate or rollback at the same time.
C22_OneAtATime ==
    /\ Cardinality(C22_Running) <= 1
    /\ \A k \in C22_Running :
          mc.run[k].op = "migrate" => mc.run[k].batch[mc.run[k].i] \notin Versions

\* C29: whatever start() and stop() calls are interleaved with the execution
\* of tasks, no more than num_workers threads run the worker loop; start() on
\* a running queue creates no thread; and once stop() has returned no worker
\* picks up a task until start() is called again.
C29_WorkersBounded ==
    /\ [](Cardinality(Looping) <= NumWorkers)
    /\ [][/\ tq.is_running => tq'.threads = tq.threads
          /\ (~tq.is_running /\ tq.caller.pc = "idle" /\ ~tq'.is_running)
                => \A i \in WorkerIds : tq'.w[i].pc = "func" => tq.w[i].pc = "func"]_vars

C28_Final == {"completed", "failed"}
C28_Rank(status) ==
    CASE status = "none" -> 0 [] status = "pending" -> 1 [] status = "running" -> 2
      [] OTHER -> 3

\* C28: every task added while the queue runs is registered and enqueued
\* (add_task returns its id), is executed exactly once, its status going from
\* pending to running to completed or failed and never back, whatever the
\* priorities; with fair workers every such task is executed eventually and
\* wait_for_task on it returns or raises eventually.
C28_EventuallyExecuted ==
    /\ [](\A id \in TaskIds : ~tq.tasks[id].raised /\ tq.tasks[id].runs <= 1)
    /\ [][\A id \in TaskIds :
             C28_Rank(tq'.tasks[id].status) >= C28_Rank(tq.tasks[id].status)]_vars
    /\ \A id \in TaskIds :
          (tq.tasks[id].status = "pending") ~> (tq.tasks[id].status \in C28_Final)
    /\ (tq.wait.pc = "poll") ~> (tq.wait.pc = "done")

\* C30: the Cache never reports an expired entry: a get(key) or exists(key)
\* made later than the expiry time of the entry set last for the key returns
\* None, respectively False.
C30_NeverExpired ==
    (cache.out.op \in {"get", "exists"} /\ cache.out.stale)
        => cache.out.result \in {"None", "False"}

====
